---- MODULE Spec2Model ----
(***************************************************************************)
(* Model of doc_anonymizer: the substitution engine (anonymizer_core.py)   *)
(* and the layout reflow pipeline (handlers_pdf.py).                       *)
(*                                                                         *)
(* A Python str is a sequence of one-character strings, so that substring  *)
(* search, str.replace, re.sub and the partial ratio are computed, not     *)
(* assumed.                                                                *)
(***************************************************************************)
EXTENDS Integers, Sequences, FiniteSets, TLC

VARIABLES
    input,       \* anonymize_text: the text argument
    rules,       \* anonymize_text: the dict load_rules returned
    text,        \* anonymize_text: the local `text`
    logs,        \* anonymize_text: the local `logs`
    stage_logs,  \* the local `logs` of apply_exact_/apply_regex_replacements
    pc,          \* position in the function that is running
    idx,         \* index of the next candidate / key / rule of the stage
    last,        \* history: what the last step did
    hist,        \* history: every log entry in the order it was appended
    xml,         \* anonymize_xml: the <line> elements, each its <word> elements
    xml0,        \* history: xml as it was passed in
    reflow,      \* history: the locals of the last line anonymize_xml processed
    page_words,  \* pdf_to_xml / pdf_to_xml_with_ocr: the local `words` / `ocr_words`
    page_lines,  \* the <line> elements of the page, each its top and <word> elements
    current_top, \* the line anchor: <<>> for None, else <<rounded top>>
    fit_args,    \* _fit_text_to_width: text, font_name and font_size of the word drawn
    fit_calls,   \* history: max_width and result of every call made for that word
    call,        \* anonymize_pdf / anonymize_docx: the arguments, the document behind
                 \* input_path, and the collaborators that fail during the call
    config,      \* the file behind config_path, as it is on disk now
    config_writes, \* how often another process has rewritten that file
    trace,       \* history: the stages run, in order
    warned,      \* history: the strategies given up with warnings.warn, and why
    outcome,     \* how the call ended: it returned, or what it raised
    used,        \* history: for each line substituted, the rules load_rules returned
    events,      \* watcher: the file-created events the observer delivers, in order
    ev,          \* watcher: the index of the event on_created is handling, or handles next
    attempt,     \* _wait_for_stable_file: the iterations of `for _ in range(attempts)` done
    wlog,        \* watcher: what on_created has printed
    poll         \* history: what the last iteration of _wait_for_stable_file saw

text_vars == <<input, text, logs, stage_logs, last, hist>>
xml_vars == <<xml, xml0, reflow>>
page_vars == <<page_words, page_lines, current_top>>
fit_vars == <<fit_args, fit_calls>>
doc_vars == <<call, config, config_writes, trace, warned, outcome, used>>
watch_vars == <<events, ev, attempt, wlog, poll>>
vars == <<rules, pc, idx, text_vars, xml_vars, page_vars, fit_vars, doc_vars, watch_vars>>

(***************************************************************************)
(* Python string primitives                                                *)
(***************************************************************************)

Max(a, b) == IF a >= b THEN a ELSE b
Min(a, b) == IF a <= b THEN a ELSE b

\* s[i:i+n] == sub (1-based i)
MatchesAt(sub, s, i) ==
    /\ i >= 1
    /\ i + Len(sub) - 1 <= Len(s)
    /\ SubSeq(s, i, i + Len(sub) - 1) = sub

\* `sub in s`
Contains(sub, s) == \E i \in 1..(Len(s) + 1) : MatchesAt(sub, s, i)

\* s.replace(old, new, 1): the first occurrence only
RECURSIVE ReplaceFirst(_, _, _)
ReplaceFirst(s, old, new) ==
    IF s = <<>> THEN (IF old = <<>> THEN new ELSE <<>>)
    ELSE IF MatchesAt(old, s, 1)
         THEN new \o SubSeq(s, Len(old) + 1, Len(s))
         ELSE <<s[1]>> \o ReplaceFirst(Tail(s), old, new)

RECURSIVE ReplaceFrom(_, _, _, _)
ReplaceFrom(s, old, new, i) ==
    IF i > Len(s) THEN <<>>
    ELSE IF MatchesAt(old, s, i)
         THEN new \o ReplaceFrom(s, old, new, i + Len(old))
         ELSE <<s[i]>> \o ReplaceFrom(s, old, new, i + 1)

RECURSIVE Interleave(_, _, _)
Interleave(s, new, i) ==
    IF i > Len(s) THEN new
    ELSE new \o <<s[i]>> \o Interleave(s, new, i + 1)

\* s.replace(old, new): every non-overlapping occurrence, left to right; an
\* empty `old` matches before every character and at the end.
Replace(s, old, new) ==
    IF old = <<>> THEN Interleave(s, new, 1) ELSE ReplaceFrom(s, old, new, 1)

RECURSIVE JoinFrom(_, _, _)
JoinFrom(parts, sep, i) ==
    IF i > Len(parts) THEN <<>>
    ELSE IF i = Len(parts) THEN parts[i]
    ELSE parts[i] \o sep \o JoinFrom(parts, sep, i + 1)

\* sep.join(parts)
Join(parts, sep) == JoinFrom(parts, sep, 1)

RECURSIVE SplitFrom(_, _, _, _)
SplitFrom(s, sepc, i, cur) ==
    IF i > Len(s) THEN <<cur>>
    ELSE IF s[i] = sepc THEN <<cur>> \o SplitFrom(s, sepc, i + 1, <<>>)
    ELSE SplitFrom(s, sepc, i + 1, Append(cur, s[i]))

\* s.split(sepc) for a one-character separator: empty pieces are kept
Split(s, sepc) == SplitFrom(s, sepc, 1, <<>>)

(***************************************************************************)
(* Python re: the patterns the rules use.  A pattern is a sequence of      *)
(* atoms; an atom matches one character of a set, or (plus) one or more,   *)
(* greedily with backtracking.  Every atom consumes a character, so no     *)
(* match is empty.                                                         *)
(***************************************************************************)

UpperOf == [c \in {"a","b","c","f","k","s","x", "m","e","o","r","p"} |->
              CASE c = "a" -> "A" [] c = "b" -> "B" [] c = "c" -> "C"
                [] c = "f" -> "F" [] c = "k" -> "K" [] c = "s" -> "S"
                [] c = "x" -> "X" [] c = "m" -> "M" [] c = "e" -> "E"
                [] c = "o" -> "O" [] c = "r" -> "R" [] c = "p" -> "P"]

\* the characters that differ from c at most in case
CaseFold(c) ==
    {c} \cup (IF c \in DOMAIN UpperOf THEN {UpperOf[c]} ELSE {})
        \cup {l \in DOMAIN UpperOf : UpperOf[l] = c}

\* re.escape(s) compiled with re.IGNORECASE
LiteralIgnoreCase(s) == [i \in 1..Len(s) |-> [chars |-> CaseFold(s[i]), plus |-> FALSE]]

\* how many characters from p on are in the set
RECURSIVE RunLen(_, _, _)
RunLen(chars, s, p) ==
    IF p <= Len(s) /\ s[p] \in chars THEN 1 + RunLen(chars, s, p + 1) ELSE 0

\* the position after the match of atoms k.. at p, 0 when there is none
RECURSIVE MatchEnd(_, _, _, _)
RECURSIVE MatchPlus(_, _, _, _, _)
MatchPlus(pat, k, s, p, n) ==
    IF n < 1 THEN 0
    ELSE LET e == MatchEnd(pat, k + 1, s, p + n)
         IN  IF e # 0 THEN e ELSE MatchPlus(pat, k, s, p, n - 1)

MatchEnd(pat, k, s, p) ==
    IF k > Len(pat) THEN p
    ELSE IF pat[k].plus
         THEN MatchPlus(pat, k, s, p, RunLen(pat[k].chars, s, p))
         ELSE IF p <= Len(s) /\ s[p] \in pat[k].chars
              THEN MatchEnd(pat, k + 1, s, p + 1)
              ELSE 0

\* re.sub(pat, repl, s): the new string and the matches, left to right
RECURSIVE ReSubFrom(_, _, _, _)
ReSubFrom(pat, repl, s, i) ==
    IF i > Len(s) THEN [text |-> <<>>, matches |-> <<>>]
    ELSE LET e == MatchEnd(pat, 1, s, i)
         IN  IF e # 0 /\ e > i
             THEN LET rest == ReSubFrom(pat, repl, s, e)
                  IN  [text |-> repl \o rest.text,
                       matches |-> <<SubSeq(s, i, e - 1)>> \o rest.matches]
             ELSE LET rest == ReSubFrom(pat, repl, s, i + 1)
                  IN  [text |-> <<s[i]>> \o rest.text, matches |-> rest.matches]

ReSub(pat, repl, s) == ReSubFrom(pat, repl, s, 1)

\* re.compile(pattern) succeeds: an empty set, [], is an unterminated
\* character set
Compiles(pat) == \A k \in 1..Len(pat) : pat[k].chars # {}

\* what may not follow a backslash in the template of a pattern without
\* groups: an ASCII letter that is no escape (bad escape), a digit 1-9
\* (invalid group reference)
BadEscapes ==
    {"A", "B", "C", "D", "E", "F", "K", "L", "S", "X", "Z", "c", "d", "e", "k", "l", "s",
     "w", "x", "1", "2", "3", "4", "5", "6", "7", "8", "9"}

\* a string repl given to re.sub as replacement is a template: the text it
\* stands for, or not ok where re.sub raises re.error.  Of the escapes,
\* the doubled backslash is modelled; a backslash before any other character
\* that is no letter or digit stays as it is
RECURSIVE TemplateFrom(_, _)
TemplateFrom(repl, i) ==
    IF i > Len(repl) THEN [ok |-> TRUE, text |-> <<>>]
    ELSE IF repl[i] # "\\"
    THEN LET rest == TemplateFrom(repl, i + 1)
         IN  [ok |-> rest.ok, text |-> <<repl[i]>> \o rest.text]
    ELSE IF i = Len(repl) \/ repl[i + 1] \in BadEscapes
    THEN [ok |-> FALSE, text |-> <<>>]
    ELSE LET rest == TemplateFrom(repl, i + 2)
         IN  [ok |-> rest.ok,
              text |-> (IF repl[i + 1] = "\\" THEN <<"\\">> ELSE <<"\\", repl[i + 1]>>)
                       \o rest.text]

Template(repl) == TemplateFrom(repl, 1)

(***************************************************************************)
(* rapidfuzz.fuzz.partial_ratio: the best fuzz.ratio of the shorter string *)
(* against the windows of the longer one; fuzz.ratio is the normalised     *)
(* Indel similarity 100 * 2 * LCS / (len1 + len2).  Scores are kept in     *)
(* thousandths, rounded down: the order of two scores and the comparison   *)
(* with a whole number of points are those of the exact values.            *)
(***************************************************************************)

\* row j of the LCS table from row j-1, cell by cell:
\* row[i] = LCS(a[1..i], b[1..j]), c = b[j], acc = row[1..i-1]
\* (the tests of `next` and `row` make TLC compute each value once, before the
\* next cell reads it)
RECURSIVE LcsRow(_, _, _, _, _)
LcsRow(prev, a, c, i, acc) ==
    IF i > Len(a) THEN acc
    ELSE LET diag == IF i = 1 THEN 0 ELSE prev[i - 1]
             left == IF i = 1 THEN 0 ELSE acc[i - 1]
             cell == IF a[i] = c THEN diag + 1 ELSE Max(prev[i], left)
             next == Append(acc, cell)
         IN  IF next \in Seq(Nat) THEN LcsRow(prev, a, c, i + 1, next) ELSE acc

RECURSIVE LcsRows(_, _, _, _)
LcsRows(prev, a, b, j) ==
    IF j > Len(b) THEN prev
    ELSE LET row == LcsRow(prev, a, b[j], 1, <<>>)
         IN  IF row \in Seq(Nat) THEN LcsRows(row, a, b, j + 1) ELSE prev

\* length of the longest common subsequence
LCS(a, b) ==
    IF a = <<>> \/ b = <<>> THEN 0
    ELSE LcsRows([i \in 1..Len(a) |-> 0], a, b, 1)[Len(a)]

\* fuzz.ratio(a, b), in thousandths
RatioMilli(a, b) ==
    IF Len(a) + Len(b) = 0 THEN 100000
    ELSE (200000 * LCS(a, b)) \div (Len(a) + Len(b))

\* the windows of `long` the short needle of length m is aligned with:
\* prefixes shorter than m, every substring of length m, suffixes shorter than m
Windows(m, long) ==
    LET n == Len(long)
    IN  {SubSeq(long, 1, i) : i \in 1..(m - 1)}
        \cup {SubSeq(long, i, i + m - 1) : i \in 1..(n - m + 1)}
        \cup {SubSeq(long, i, n) : i \in (n - m + 2)..n}

PartialAligned(short, long) ==
    LET scores == {RatioMilli(short, w) : w \in Windows(Len(short), long)}
    IN  CHOOSE x \in scores : \A y \in scores : y <= x

partial_ratio(s1, s2) ==
    IF s1 = <<>> \/ s2 = <<>> THEN 0
    ELSE IF Len(s1) < Len(s2) THEN PartialAligned(s1, s2)
    ELSE IF Len(s2) < Len(s1) THEN PartialAligned(s2, s1)
    ELSE Max(PartialAligned(s1, s2), PartialAligned(s2, s1))

(***************************************************************************)
(* anonymizer_core.py                                                      *)
(***************************************************************************)

\* names = [customer.get("name", "")] + aliases; names = [n for n in names if n]
NonEmpty(n) == n # <<>>

\* the aliases tried before the name
names_aliases_first(customer) == SelectSeq(customer.aliases \o <<customer.name>>, NonEmpty)

\* `names = [customer["name"]] + customer.get("aliases", [])`, and
\* `if not candidate: continue`
names(customer) == SelectSeq(<<customer.name>> \o customer.aliases, NonEmpty)

\* the (candidate, replacement) pairs of the two nested loops, in loop order
RECURSIVE CandidatesFrom(_, _)
CandidatesFrom(kb_customers, c) ==
    IF c > Len(kb_customers) THEN <<>>
    ELSE LET ns == names(kb_customers[c])
         IN  [i \in 1..Len(ns) |->
                 [candidate |-> ns[i],
                  replacement |-> kb_customers[c].replacement,
                  customer |-> c]]
             \o CandidatesFrom(kb_customers, c + 1)

Candidates(kb_customers) == CandidatesFrom(kb_customers, 1)

FuzzyHitStrict(score) == score > 90 * 1000

\* `if score >= 90`
FuzzyHit(score) == score >= 90 * 1000

\* the body of `for candidate in names`
kb_candidate(t, candidate, replacement) ==
    IF Contains(candidate, t)
    THEN [text |-> Replace(t, candidate, replacement),
          logged |-> TRUE, branch |-> "exact", score |-> 0, raised |-> FALSE]
    ELSE LET score == partial_ratio(candidate, t)
         IN  IF ~FuzzyHit(score)
             THEN [text |-> t, logged |-> FALSE, branch |-> "none", score |-> score,
                   raised |-> FALSE]
             ELSE IF ~Template(replacement).ok
             THEN [text |-> t, logged |-> FALSE, branch |-> "fuzzy", score |-> score,
                   raised |-> TRUE]
             ELSE [text |-> ReSub(LiteralIgnoreCase(candidate),
                                  Template(replacement).text, t).text,
                   logged |-> TRUE, branch |-> "fuzzy", score |-> score, raised |-> FALSE]

\* `if src == text` in place of `if src in text`
exact_one_whole(t, src, dst) ==
    IF src = t
    THEN [text |-> dst, logged |-> TRUE]
    ELSE [text |-> t, logged |-> FALSE]

\* text.replace(src, dst, 1) in place of text.replace(src, dst)
exact_one_first(t, src, dst) ==
    IF Contains(src, t)
    THEN [text |-> ReplaceFirst(t, src, dst), logged |-> TRUE]
    ELSE [text |-> t, logged |-> FALSE]

\* the body of `for src, dst in mapping.items()`
exact_one(t, src, dst) ==
    IF Contains(src, t)
    THEN [text |-> Replace(t, src, dst), logged |-> TRUE]
    ELSE [text |-> t, logged |-> FALSE]

\* the `else` branch left as the comment on it says, for later: no
\* replacement for a type that is not "mask"
regex_one_mask_only(t, rule) ==
    IF ~Compiles(rule.pattern)
    THEN [text |-> t, matches |-> <<>>, raised |-> TRUE]
    ELSE IF rule.replacement_type = "mask"
    THEN CHOOSE out \in
             {[text |-> r.text, matches |-> r.matches, raised |-> FALSE] :
                 r \in {ReSub(rule.pattern, rule.replacement_value, t)}} : TRUE
    ELSE [text |-> t, matches |-> <<>>, raised |-> FALSE]

\* the body of `for rule in regex_rules`: both branches of `if rtype == "mask"`
\* make the same call
regex_one(t, rule) ==
    IF ~Compiles(rule.pattern)
    THEN [text |-> t, matches |-> <<>>, raised |-> TRUE]
    ELSE CHOOSE out \in
             {[text |-> r.text, matches |-> r.matches, raised |-> FALSE] :
                 r \in {IF rule.replacement_type = "mask"
                        THEN ReSub(rule.pattern, rule.replacement_value, t)
                        ELSE ReSub(rule.pattern, rule.replacement_value, t)}} : TRUE

\* logs.append((original, replacement_value)) of each match, in match order
MatchLogs(matches, replacement_value) ==
    [i \in 1..Len(matches) |-> <<matches[i], replacement_value>>]

\* def apply_exact_replacements(text, mapping): the (text, logs) it returns;
\* mapping is the dict's items in insertion order
RECURSIVE ExactFrom(_, _, _, _)
ExactFrom(t, mapping, i, acc) ==
    IF i > Len(mapping) THEN [text |-> t, logs |-> acc]
    ELSE LET r == exact_one(t, mapping[i][1], mapping[i][2])
         IN  ExactFrom(r.text, mapping, i + 1,
                       IF r.logged THEN Append(acc, mapping[i]) ELSE acc)

apply_exact_replacements(t, mapping) == ExactFrom(t, mapping, 1, <<>>)

\* def apply_regex_replacements(text, regex_rules)
RECURSIVE RegexFrom(_, _, _, _)
RegexFrom(t, regex_rules, i, acc) ==
    IF i > Len(regex_rules) THEN [text |-> t, logs |-> acc, raised |-> FALSE]
    ELSE CHOOSE out \in
             {IF r.raised THEN [text |-> t, logs |-> acc, raised |-> TRUE]
              ELSE RegexFrom(r.text, regex_rules, i + 1,
                             acc \o MatchLogs(r.matches, regex_rules[i].replacement_value)) :
                 r \in {regex_one(t, regex_rules[i])}} : TRUE

apply_regex_replacements(t, regex_rules) == RegexFrom(t, regex_rules, 1, <<>>)

\* the knowledge-base loops of anonymize_text
RECURSIVE KbFrom(_, _, _, _)
KbFrom(t, cands, i, acc) ==
    IF i > Len(cands) THEN [text |-> t, logs |-> acc, raised |-> FALSE]
    ELSE CHOOSE out \in
             {IF r.raised THEN [text |-> t, logs |-> acc, raised |-> TRUE]
              ELSE KbFrom(r.text, cands, i + 1,
                          IF r.logged
                          THEN Append(acc, <<cands[i].candidate, cands[i].replacement>>)
                          ELSE acc) :
                 r \in {kb_candidate(t, cands[i].candidate, cands[i].replacement)}} : TRUE

extend_front(l, more) == more \o l

\* logs.extend(more)
extend(l, more) == l \o more

\* def anonymize_text(text, config_path), with rs the loaded rules: the
\* (text, logs) it returns, or raised, with the text and logs it had then
anonymize_text(t, rs) ==
    CHOOSE out \in
        {IF kb.raised THEN kb
         ELSE CHOOSE o \in
                  {IF re.raised
                   THEN [text |-> re.text, logs |-> extend(kb.logs, ex.logs), raised |-> TRUE]
                   ELSE [text |-> re.text, logs |-> extend(extend(kb.logs, ex.logs), re.logs),
                         raised |-> FALSE] :
                      <<ex, re>> \in
                          {<<e, apply_regex_replacements(e.text, rs.regex)>> :
                              e \in {apply_exact_replacements(kb.text, rs.exact)}}} : TRUE :
            kb \in {KbFrom(t, Candidates(rs.customers), 1, <<>>)}} : TRUE

(***************************************************************************)
(* handlers_pdf.py: anonymize_xml.  A <word> element is its x0 attribute   *)
(* (which tells the boxes of a line apart) and its text.                   *)
(***************************************************************************)

SP == <<" ">>

\* new_tokens = [t for t in new_line.split(" ") if t]
Tokens(new_line) == SelectSeq(Split(new_line, " "), NonEmpty)

\* the texts joined without a separator
OriginalLineTight(words) == Join([i \in 1..Len(words) |-> words[i].text], <<>>)

\* original_line = " ".join(word.text or "" for word in words)
OriginalLine(words) == Join([i \in 1..Len(words) |-> words[i].text], SP)

\* `if len(new_tokens) == len(words)` (lines 278-281)
assign_equal(words, new_tokens) ==
    [i \in 1..Len(words) |-> [words[i] EXCEPT !.text = new_tokens[i]]]

assign_fewer_drop(words, new_tokens) ==
    [i \in 1..Len(new_tokens) |-> [words[i] EXCEPT !.text = new_tokens[i]]]

assign_fewer_keep(words, new_tokens) ==
    [i \in 1..Len(words) |->
        IF i <= Len(new_tokens) THEN [words[i] EXCEPT !.text = new_tokens[i]] ELSE words[i]]

\* `elif len(new_tokens) < len(words)` (lines 283-289)
assign_fewer(words, new_tokens) ==
    [i \in 1..Len(words) |->
        [words[i] EXCEPT !.text = IF i <= Len(new_tokens) THEN new_tokens[i] ELSE <<>>]]

\* the loop `for word_idx in range(len(words))` with its cursor token_idx;
\* new_tokens[a:b] is SubSeq(new_tokens, a + 1, b)
RECURSIVE AssignMoreFrom(_, _, _, _, _, _)
AssignMoreFrom(words, new_tokens, tokens_per_word, remainder, word_idx, token_idx) ==
    IF word_idx >= Len(words) THEN <<>>
    ELSE LET tokens_to_assign == tokens_per_word + (IF word_idx < remainder THEN 1 ELSE 0)
             assigned_tokens == SubSeq(new_tokens, token_idx + 1,
                                       Min(token_idx + tokens_to_assign, Len(new_tokens)))
         IN  <<[words[word_idx + 1] EXCEPT !.text = Join(assigned_tokens, SP)]>>
             \o AssignMoreFrom(words, new_tokens, tokens_per_word, remainder,
                               word_idx + 1, token_idx + tokens_to_assign)

\* the remainder given to the last boxes, not the first
RECURSIVE AssignMoreLast(_, _, _, _, _, _)
AssignMoreLast(words, new_tokens, tokens_per_word, remainder, word_idx, token_idx) ==
    IF word_idx >= Len(words) THEN <<>>
    ELSE LET tokens_to_assign ==
                 tokens_per_word + (IF word_idx >= Len(words) - remainder THEN 1 ELSE 0)
             assigned_tokens == SubSeq(new_tokens, token_idx + 1,
                                       Min(token_idx + tokens_to_assign, Len(new_tokens)))
         IN  <<[words[word_idx + 1] EXCEPT !.text = Join(assigned_tokens, SP)]>>
             \o AssignMoreLast(words, new_tokens, tokens_per_word, remainder,
                               word_idx + 1, token_idx + tokens_to_assign)

assign_more_last(words, new_tokens) ==
    AssignMoreLast(words, new_tokens, Len(new_tokens) \div Len(words),
                   Len(new_tokens) % Len(words), 0, 0)

\* tokens_per_word tokens for every box, the remainder given to none
assign_more_floor(words, new_tokens) ==
    AssignMoreFrom(words, new_tokens, Len(new_tokens) \div Len(words), 0, 0, 0)

\* `else` (lines 291-308)
assign_more(words, new_tokens) ==
    AssignMoreFrom(words, new_tokens, Len(new_tokens) \div Len(words),
                   Len(new_tokens) % Len(words), 0, 0)

\* the token redistribution (lines 278-308)
redistribute(words, new_tokens) ==
    IF Len(new_tokens) = Len(words) THEN assign_equal(words, new_tokens)
    ELSE IF Len(new_tokens) < Len(words) THEN assign_fewer(words, new_tokens)
    ELSE assign_more(words, new_tokens)

\* the body of `for line_el in xml_root.iter("line")` (lines 268-308)
\* the words it leaves, with the line texts it went through
anonymize_xml_line(words, rs) ==
    IF words = <<>>
    THEN [words |-> words, original_line |-> <<>>, new_line |-> <<>>, new_tokens |-> <<>>]
    ELSE LET new_line == anonymize_text(OriginalLine(words), rs).text
         IN  [words |-> redistribute(words, Tokens(new_line)),
              original_line |-> OriginalLine(words),
              new_line |-> new_line,
              new_tokens |-> Tokens(new_line)]

(***************************************************************************)
(* handlers_pdf.py: the line grouping of pdf_to_xml and                    *)
(* pdf_to_xml_with_ocr.  A word is its top, in hundredths of a point, and  *)
(* its x0; a rounded top is in tenths of a point.                          *)
(***************************************************************************)

\* tolerance = 2.0, in tenths of a point
tolerance == 20

\* round(top, 1) of a top that is not halfway between two tenths
Round1(h) == (h + 5) \div 10

Abs(n) == IF n < 0 THEN 0 - n ELSE n

\* key=lambda w: (round(w.get("top", 0), 1), w.get("x0", 0)), compared as tuples
KeyLess(a, b) ==
    \/ Round1(a.top) < Round1(b.top)
    \/ Round1(a.top) = Round1(b.top) /\ a.x0 < b.x0

\* list.sort is stable: w goes behind every word whose key is not greater
RECURSIVE InsertSorted(_, _)
InsertSorted(sorted, w) ==
    IF sorted = <<>> THEN <<w>>
    ELSE IF KeyLess(w, Head(sorted)) THEN <<w>> \o sorted
    ELSE <<Head(sorted)>> \o InsertSorted(Tail(sorted), w)

RECURSIVE SortFrom(_, _, _)
SortFrom(ws, i, sorted) ==
    IF i > Len(ws) THEN sorted
    ELSE SortFrom(ws, i + 1, InsertSorted(sorted, ws[i]))

\* words.sort(key=...)
sort_words(ws) == SortFrom(ws, 1, <<>>)

\* `if current_top is None or abs(rounded_top - current_top) > tolerance`
StartsLine(anchor, rounded_top) ==
    \/ anchor = <<>>
    \/ anchor # <<>> /\ Abs(rounded_top - anchor[1]) > tolerance

\* current_top = rounded_top for every word, not only for the first of a line
group_word_moving_anchor(ls, anchor, word) ==
    LET rounded_top == Round1(word.top)
    IN  IF StartsLine(anchor, rounded_top)
        THEN [lines |-> Append(ls, [top |-> rounded_top, words |-> <<word>>]),
              current_top |-> <<rounded_top>>]
        ELSE [lines |-> [ls EXCEPT ![Len(ls)].words = Append(@, word)],
              current_top |-> <<rounded_top>>]

\* one iteration of `for word in words`: the lines and the anchor it leaves
group_word(ls, anchor, word) ==
    LET rounded_top == Round1(word.top)
    IN  IF StartsLine(anchor, rounded_top)
        THEN [lines |-> Append(ls, [top |-> rounded_top, words |-> <<word>>]),
              current_top |-> <<rounded_top>>]
        ELSE [lines |-> [ls EXCEPT ![Len(ls)].words = Append(@, word)],
              current_top |-> anchor]

(***************************************************************************)
(* handlers_pdf.py: _get_text_width and _fit_text_to_width.  A float is    *)
(* the exact fraction [n, d] with d > 0.                                   *)
(***************************************************************************)

RECURSIVE GCD(_, _)
GCD(a, b) == IF b = 0 THEN a ELSE GCD(b, a % b)

\* n / d in lowest terms
Rat(n, d) ==
    LET g == GCD(IF n < 0 THEN 0 - n ELSE n, d)
    IN  [n |-> n \div g, d |-> d \div g]
RatLE(a, b) == a.n * b.d <= b.n * a.d
RatMul(a, b) == Rat(a.n * b.n, a.d * b.d)
\* a / b for b > 0
RatDiv(a, b) == Rat(a.n * b.d, a.d * b.n)
\* int(a) for a >= 0
RatInt(a) == a.n \div a.d

\* min_font_size: float = 4.0
min_font_size == Rat(4, 1)

\* the ellipsis of line 97
Ellipsis == <<".", ".", ".">>

\* font.face.charWidths.get(ord(char), 500): the Helvetica metrics of the
\* characters used here, 500 for any other character
charWidths(char) ==
    CASE char = "W" -> 944
      [] char = "A" -> 667
      [] char = "i" -> 222
      [] char = "." -> 278
      [] OTHER -> 500

\* pdfmetrics.getFont(font_name) succeeds
FontKnown(font_name) == font_name = "Helvetica"

RECURSIVE SumWidths(_, _)
SumWidths(t, i) ==
    IF i > Len(t) THEN 0 ELSE charWidths(t[i]) + SumWidths(t, i + 1)

\* _get_text_width; the except branch is len(text) * font_size * 0.6
get_text_width(t, font_name, font_size) ==
    IF t = <<>> THEN Rat(0, 1)
    ELSE IF FontKnown(font_name)
         THEN RatMul(Rat(SumWidths(t, 1), 1000), font_size)
         ELSE RatMul(Rat(Len(t) * 6, 10), font_size)

\* `if adjusted_size > min_font_size` in place of `>=`
fit_text_to_width_above(t, font_name, font_size, max_width) ==
    IF t = <<>> \/ max_width.n <= 0 THEN [text |-> t, size |-> font_size]
    ELSE LET current_width == get_text_width(t, font_name, font_size)
             adjusted_size == RatMul(font_size, RatDiv(max_width, current_width))
             chars_that_fit == RatInt(RatDiv(RatMul(Rat(Len(t), 1), max_width), current_width))
         IN  IF RatLE(current_width, max_width) THEN [text |-> t, size |-> font_size]
             ELSE IF ~RatLE(adjusted_size, min_font_size) THEN [text |-> t, size |-> adjusted_size]
             ELSE IF chars_that_fit < Len(t)
                  THEN [text |-> SubSeq(t, 1, Min(Len(t), Max(1, chars_that_fit - 3))) \o Ellipsis,
                        size |-> min_font_size]
                  ELSE [text |-> t, size |-> min_font_size]

\* _fit_text_to_width: (adjusted_text, adjusted_font_size)
fit_text_to_width(t, font_name, font_size, max_width) ==
    IF t = <<>> \/ max_width.n <= 0 THEN [text |-> t, size |-> font_size]
    ELSE LET current_width == get_text_width(t, font_name, font_size)
             adjusted_size == RatMul(font_size, RatDiv(max_width, current_width))
             chars_that_fit == RatInt(RatDiv(RatMul(Rat(Len(t), 1), max_width), current_width))
         IN  IF RatLE(current_width, max_width) THEN [text |-> t, size |-> font_size]
             ELSE IF RatLE(min_font_size, adjusted_size) THEN [text |-> t, size |-> adjusted_size]
             ELSE IF chars_that_fit < Len(t)
                  THEN [text |-> SubSeq(t, 1, Min(Len(t), Max(1, chars_that_fit - 3))) \o Ellipsis,
                        size |-> min_font_size]
                  ELSE [text |-> t, size |-> min_font_size]

(***************************************************************************)
(* Inputs: lines of words, and rule sets drawn from pools of rule entries  *)
(***************************************************************************)

MaxWords == 2   \* words of an input line
MaxRules == 3   \* customers + exact keys + regex rules of a rule set
MaxBoxes == 3   \* word boxes of a line
MaxPageWords == 3   \* words of a page
MaxFitLen == 2   \* characters of a short word that is fitted
MaxFitCalls == 2   \* calls of _fit_text_to_width for one word
MaxDocLines == 2   \* lines or paragraphs of a document
MaxConfigWrites == 1   \* rewrites of the configuration file during a call

KFC == <<"K", "F", "C">>
ABC == <<"A", "B", "C">>
CLI == <<"C", "l", ":">>
N42 == <<"4", "2">>
SA == <<"S", ".", "A", ".">>
ACME == <<"A", "C", "M", "E", "C", "O", "R", "P", "S", "A">>
ACMEa == <<"A", "C", "M", "E", "C", "O", "R", "P", "S", "a">>
ACMEsa == <<"A", "C", "M", "E", "C", "O", "R", "P", "s", "a">>
ACMEX == <<"A", "C", "M", "E", "C", "O", "R", "P", "S", "X">>

CLIENTE == <<"C", "l", "i", "e", "n", "t", "e", ":">>
ESPANA == <<"E", "s", "p", "a", "ñ", "a">>
EMPRESA == <<"E", "m", "p", "r", "e", "s", "a">>
ANONIMA == <<"A", "n", "ó", "n", "i", "m", "a">>

Digits == {"0", "1", "2", "3", "4", "5", "6", "7", "8", "9"}
Uppers == {"A", "B", "C", "F", "K", "S", "X", "Z"}

\* sequences over S of length <= n, no element twice
SeqsNoRep(S, n) ==
    UNION {{q \in [1..k -> S] : \A i, j \in 1..k : i # j => q[i] # q[j]} : k \in 0..n}

\* the lines of at most n words of the pool, joined by single spaces
Lines(pool, n) == {Join(ws, SP) : ws \in UNION {[1..k -> pool] : k \in 0..n}}

RuleSets(customerPool, exactPool, regexPool) ==
    {[customers |-> c, exact |-> e, regex |-> r] :
        <<c, e, r>> \in
            {x \in SeqsNoRep(customerPool, MaxRules)
                   \X SeqsNoRep(exactPool, MaxRules)
                   \X SeqsNoRep(regexPool, MaxRules) :
                Len(x[1]) + Len(x[2]) + Len(x[3]) <= MaxRules}}

GeneralWords == {KFC, ABC, CLI, N42}
GeneralCustomers ==
    {[name |-> KFC, aliases |-> << <<>> >>, replacement |-> ABC \o SP \o <<"7">>],
     [name |-> ABC, aliases |-> <<CLI>>, replacement |-> <<"X">>],
     [name |-> <<"K">>, aliases |-> <<>>, replacement |-> KFC]}
GeneralExact == {<<ABC, SA>>, <<<<"A">>, <<"Z">>>>}
GeneralRegex ==
    {[pattern |-> <<[chars |-> Digits, plus |-> TRUE]>>,
      replacement_type |-> "mask", replacement_value |-> <<"#">>],
     [pattern |-> <<[chars |-> Uppers, plus |-> TRUE], [chars |-> {"."}, plus |-> FALSE]>>,
      replacement_type |-> "hash", replacement_value |-> <<"*">>]}

\* lines around the fuzzy threshold: a ten-character name met with one or two
\* characters changed, alone or after another word
FuzzyWords == {ACME, ACMEa, ACMEsa, ACMEX}
FuzzyLines == FuzzyWords \cup {CLI \o SP \o w : w \in FuzzyWords}
FuzzyCustomers ==
    {[name |-> ACME, aliases |-> <<>>, replacement |-> <<"[", "C", "]">>],
     [name |-> CLI, aliases |-> <<>>, replacement |-> <<"[", "L", "]">>]}

(***************************************************************************)
(* anonymize_text as a state machine: one step per loop iteration          *)
(***************************************************************************)

NoLine == [line |-> 0, original_line |-> <<>>, new_line |-> <<>>, new_tokens |-> <<>>]

NoCall == [fn |-> "", use_ocr |-> FALSE, use_word_pipeline |-> FALSE, lines |-> <<>>,
           fails |-> {}]
NoOutcome == [state |-> "running", error |-> <<>>, written |-> FALSE]
NoFit == [text |-> <<>>, font_name |-> "", font_size |-> Rat(0, 1)]
\* no iteration yet; an answer the code did not get is "-", a size it did
\* not read is -1
NoPoll == [exists |-> "-", size_before |-> -1, size_after |-> -1, opened |-> "-"]
NoStep == [op |-> "none", rule |-> 0, before |-> <<>>, orig |-> <<>>, repl |-> <<>>,
           branch |-> "none", score |-> 0, nlogs |-> 0]

Start(t, rs) ==
    /\ input = t
    /\ rules = rs
    /\ text = t
    /\ logs = <<>>
    /\ stage_logs = <<>>
    /\ pc = "kb"
    /\ idx = 1
    /\ last = NoStep
    /\ hist = <<>>
    /\ events = <<>> /\ ev = 1 /\ attempt = 0 /\ wlog = <<>> /\ poll = NoPoll
    /\ call = NoCall /\ config = "v1" /\ config_writes = 0 /\ trace = <<>> /\ warned = <<>> /\ outcome = NoOutcome /\ used = <<>>
    /\ fit_args = NoFit /\ fit_calls = <<>>
    /\ xml = <<>>
    /\ xml0 = <<>>
    /\ reflow = NoLine
    /\ page_words = <<>> /\ page_lines = <<>> /\ current_top = <<>>

Init ==
    \/ \E t \in Lines(GeneralWords, MaxWords) :
       \E rs \in RuleSets(GeneralCustomers, GeneralExact, GeneralRegex) : Start(t, rs)
    \/ \E t \in FuzzyLines :
       \E rs \in RuleSets(FuzzyCustomers, {}, {}) : Start(t, rs)

\* one iteration of `for candidate in names` (lines 57-68)
StepKb ==
    /\ pc = "kb"
    /\ idx <= Len(Candidates(rules.customers))
    /\ LET c == Candidates(rules.customers)[idx]
           r == kb_candidate(text, c.candidate, c.replacement)
           e == <<c.candidate, c.replacement>>
       IN  /\ ~r.raised
           /\ text' = r.text
           /\ logs' = IF r.logged THEN Append(logs, e) ELSE logs
           /\ hist' = IF r.logged
                      THEN Append(hist, [entry |-> e, stage |-> 1, rule |-> idx,
                                         pos |-> 1, changed |-> r.text # text])
                      ELSE hist
           /\ last' = [op |-> "kb", rule |-> idx, before |-> text,
                       orig |-> c.candidate, repl |-> c.replacement,
                       branch |-> r.branch, score |-> r.score,
                       nlogs |-> Len(logs)]
    /\ idx' = idx + 1
    /\ UNCHANGED <<input, rules, stage_logs, pc>>
    /\ UNCHANGED xml_vars
    /\ UNCHANGED page_vars
    /\ UNCHANGED fit_vars
    /\ UNCHANGED doc_vars
    /\ UNCHANGED watch_vars

\* the call of apply_exact_replacements (line 72, line 14)
BeginExact ==
    /\ pc = "kb"
    /\ idx > Len(Candidates(rules.customers))
    /\ pc' = "exact"
    /\ idx' = 1
    /\ stage_logs' = <<>>
    /\ last' = [NoStep EXCEPT !.op = "begin_exact", !.before = text]
    /\ UNCHANGED <<input, rules, text, logs, hist>>
    /\ UNCHANGED xml_vars
    /\ UNCHANGED page_vars
    /\ UNCHANGED fit_vars
    /\ UNCHANGED doc_vars
    /\ UNCHANGED watch_vars

\* one iteration of `for src, dst in mapping.items()` (lines 15-18)
StepExact ==
    /\ pc = "exact"
    /\ idx <= Len(rules.exact)
    /\ LET e == rules.exact[idx]
           r == exact_one(text, e[1], e[2])
       IN  /\ text' = r.text
           /\ stage_logs' = IF r.logged THEN Append(stage_logs, e) ELSE stage_logs
           /\ hist' = IF r.logged
                      THEN Append(hist, [entry |-> e, stage |-> 2, rule |-> idx,
                                         pos |-> 1, changed |-> r.text # text])
                      ELSE hist
           /\ last' = [op |-> "exact", rule |-> idx, before |-> text,
                       orig |-> e[1], repl |-> e[2],
                       branch |-> IF r.logged THEN "exact" ELSE "none", score |-> 0,
                       nlogs |-> Len(stage_logs)]
    /\ idx' = idx + 1
    /\ UNCHANGED <<input, rules, logs, pc>>
    /\ UNCHANGED xml_vars
    /\ UNCHANGED page_vars
    /\ UNCHANGED fit_vars
    /\ UNCHANGED doc_vars
    /\ UNCHANGED watch_vars

\* apply_exact_replacements returns, logs.extend(exact_logs), and the call of
\* apply_regex_replacements (lines 19, 73, 77, 22)
ReturnExact ==
    /\ pc = "exact"
    /\ idx > Len(rules.exact)
    /\ logs' = extend(logs, stage_logs)
    /\ stage_logs' = <<>>
    /\ pc' = "regex"
    /\ idx' = 1
    /\ last' = [NoStep EXCEPT !.op = "return_exact", !.before = text]
    /\ UNCHANGED <<input, rules, text, hist>>
    /\ UNCHANGED xml_vars
    /\ UNCHANGED page_vars
    /\ UNCHANGED fit_vars
    /\ UNCHANGED doc_vars
    /\ UNCHANGED watch_vars

\* one iteration of `for rule in regex_rules` (lines 31-41)
StepRegex ==
    /\ pc = "regex"
    /\ idx <= Len(rules.regex)
    /\ LET rule == rules.regex[idx]
           r == regex_one(text, rule)
           es == MatchLogs(r.matches, rule.replacement_value)
       IN  /\ ~r.raised
           /\ text' = r.text
           /\ stage_logs' = stage_logs \o es
           /\ hist' = hist \o [i \in 1..Len(es) |->
                                  [entry |-> es[i], stage |-> 3, rule |-> idx,
                                   pos |-> i, changed |-> TRUE]]
           /\ last' = [op |-> "regex", rule |-> idx, before |-> text,
                       orig |-> <<>>, repl |-> rule.replacement_value,
                       branch |-> IF es # <<>> THEN "match" ELSE "none", score |-> 0,
                       nlogs |-> Len(stage_logs)]
    /\ idx' = idx + 1
    /\ UNCHANGED <<input, rules, logs, pc>>
    /\ UNCHANGED xml_vars
    /\ UNCHANGED page_vars
    /\ UNCHANGED fit_vars
    /\ UNCHANGED doc_vars
    /\ UNCHANGED watch_vars

\* apply_regex_replacements returns, logs.extend(regex_logs), return (lines 43, 78, 80)
ReturnRegex ==
    /\ pc = "regex"
    /\ idx > Len(rules.regex)
    /\ logs' = extend(logs, stage_logs)
    /\ stage_logs' = <<>>
    /\ pc' = "done"
    /\ idx' = 1
    /\ last' = [NoStep EXCEPT !.op = "return", !.before = text]
    /\ UNCHANGED <<input, rules, text, hist>>
    /\ UNCHANGED xml_vars
    /\ UNCHANGED page_vars
    /\ UNCHANGED fit_vars
    /\ UNCHANGED doc_vars
    /\ UNCHANGED watch_vars

Next ==
    \/ StepKb
    \/ BeginExact
    \/ StepExact
    \/ ReturnExact
    \/ StepRegex
    \/ ReturnRegex

Spec == Init /\ [][Next]_vars

(***************************************************************************)
(* anonymize_text with rules that make re.sub raise                        *)
(***************************************************************************)

\* re.sub raises re.error at line 67: the replacement is a bad template
RaiseKb ==
    /\ pc = "kb"
    /\ idx <= Len(Candidates(rules.customers))
    /\ LET c == Candidates(rules.customers)[idx]
           r == kb_candidate(text, c.candidate, c.replacement)
       IN  /\ r.raised
           /\ last' = [op |-> "raise_kb", rule |-> idx, before |-> text,
                       orig |-> c.candidate, repl |-> c.replacement,
                       branch |-> r.branch, score |-> r.score, nlogs |-> Len(logs)]
    /\ pc' = "raised"
    /\ UNCHANGED <<input, rules, text, logs, stage_logs, hist, idx>>
    /\ UNCHANGED xml_vars
    /\ UNCHANGED page_vars
    /\ UNCHANGED fit_vars
    /\ UNCHANGED doc_vars
    /\ UNCHANGED watch_vars

\* re.sub raises re.error at line 38 / 41: the pattern does not compile
RaiseRegex ==
    /\ pc = "regex"
    /\ idx <= Len(rules.regex)
    /\ regex_one(text, rules.regex[idx]).raised
    /\ last' = [op |-> "raise_regex", rule |-> idx, before |-> text,
                orig |-> <<>>, repl |-> rules.regex[idx].replacement_value,
                branch |-> "none", score |-> 0, nlogs |-> Len(stage_logs)]
    /\ pc' = "raised"
    /\ UNCHANGED <<input, rules, text, logs, stage_logs, hist, idx>>
    /\ UNCHANGED xml_vars
    /\ UNCHANGED page_vars
    /\ UNCHANGED fit_vars
    /\ UNCHANGED doc_vars
    /\ UNCHANGED watch_vars

BACKSLASH == <<"\\">>
ErrLines == {ACME, ACMEa, ACMEsa, CLI \o SP \o ACMEa, N42, ABC \o SP \o N42}
ErrCustomers ==
    {[name |-> ACME, aliases |-> <<>>, replacement |-> BACKSLASH \o <<"C">>],
     [name |-> ACME, aliases |-> <<>>, replacement |-> <<"C", ":">> \o BACKSLASH \o BACKSLASH],
     [name |-> KFC, aliases |-> <<>>, replacement |-> ABC]}
ErrExact == {<<ABC, SA>>}
ErrRegex ==
    {[pattern |-> <<[chars |-> Digits, plus |-> TRUE]>>,
      replacement_type |-> "mask", replacement_value |-> <<"#">>],
     [pattern |-> <<[chars |-> {}, plus |-> TRUE]>>,
      replacement_type |-> "mask", replacement_value |-> <<"#">>],
     [pattern |-> <<[chars |-> Uppers, plus |-> TRUE], [chars |-> {"."}, plus |-> FALSE]>>,
      replacement_type |-> "mask", replacement_value |-> <<"*">>]}

InitErr ==
    \E t \in ErrLines :
    \E rs \in RuleSets(ErrCustomers, ErrExact, ErrRegex) : Start(t, rs)

NextErr ==
    \/ Next
    \/ RaiseKb
    \/ RaiseRegex

SpecErr == InitErr /\ [][NextErr]_vars

(***************************************************************************)
(* anonymize_xml as a state machine: one step per <line>                   *)
(***************************************************************************)

\* the lines of 1..n boxes with texts of the pool, box i at x0 = 10 * i
BoxLines(pool, n) ==
    UNION {{[i \in 1..k |-> [x0 |-> 10 * i, text |-> ws[i]]] : ws \in [1..k -> pool]} :
           k \in 1..n}

Boxes(ws) == [i \in 1..Len(ws) |-> [x0 |-> 10 * i, text |-> ws[i]]]

ReflowWords == {CLIENTE, KFC, ESPANA, <<>>}
\* five-box lines
LongLines == {Boxes(<<ESPANA, KFC, ESPANA, KFC, ESPANA>>),
              Boxes(<<CLIENTE, KFC, ESPANA, ESPANA, ESPANA>>)}
\* what follows the first line: nothing, a line without words, a one-word line
TailLines == {<<>>, << <<>> >>, << Boxes(<<KFC>>) >>}
ReflowCustomers ==
    {[name |-> KFC, aliases |-> <<>>, replacement |-> <<"X">> \o SP \o <<"Y">>]}
ReflowExact ==
    {<<KFC, ABC \o SP \o SA>>,
     <<KFC \o SP \o ESPANA, ABC \o SP \o SA \o SP \o EMPRESA \o SP \o ANONIMA>>,
     <<ESPANA, <<>>>>}

InitXml ==
    \E first \in BoxLines(ReflowWords, MaxBoxes) \cup LongLines :
    \E tail \in TailLines :
    \E rs \in RuleSets(ReflowCustomers, ReflowExact, {}) :
        /\ rules = rs
        /\ xml = <<first>> \o tail
        /\ xml0 = <<first>> \o tail
        /\ reflow = NoLine
        /\ page_words = <<>> /\ page_lines = <<>> /\ current_top = <<>>
        /\ pc = "xml"
        /\ idx = 1
        /\ input = <<>> /\ text = <<>> /\ logs = <<>> /\ stage_logs = <<>>
        /\ last = NoStep /\ hist = <<>>
        /\ events = <<>> /\ ev = 1 /\ attempt = 0 /\ wlog = <<>> /\ poll = NoPoll
        /\ call = NoCall /\ config = "v1" /\ config_writes = 0 /\ trace = <<>> /\ warned = <<>> /\ outcome = NoOutcome /\ used = <<>>
        /\ fit_args = NoFit /\ fit_calls = <<>>

\* one iteration of `for line_el in xml_root.iter("line")` (lines 267-308)
XmlLine ==
    /\ pc = "xml"
    /\ idx <= Len(xml)
    /\ \E r \in {anonymize_xml_line(xml[idx], rules)} :
          /\ xml' = [xml EXCEPT ![idx] = r.words]
          /\ reflow' = [line |-> idx, original_line |-> r.original_line,
                        new_line |-> r.new_line, new_tokens |-> r.new_tokens]
    /\ idx' = idx + 1
    /\ UNCHANGED <<rules, pc, xml0>>
    /\ UNCHANGED text_vars
    /\ UNCHANGED page_vars
    /\ UNCHANGED fit_vars
    /\ UNCHANGED doc_vars
    /\ UNCHANGED watch_vars

\* `return xml_root` (line 310)
XmlReturn ==
    /\ pc = "xml"
    /\ idx > Len(xml)
    /\ pc' = "xml_done"
    /\ UNCHANGED <<rules, idx>>
    /\ UNCHANGED xml_vars
    /\ UNCHANGED page_vars
    /\ UNCHANGED text_vars
    /\ UNCHANGED fit_vars
    /\ UNCHANGED doc_vars
    /\ UNCHANGED watch_vars

NextXml ==
    \/ XmlLine
    \/ XmlReturn

SpecReflow == InitXml /\ [][NextXml]_vars

(***************************************************************************)
(* The line grouping as a state machine: the sort, then one step per word  *)
(***************************************************************************)

\* tops 10.00, 10.04, 11.00, 12.00 and 12.10
PageTops == {1000, 1004, 1100, 1200, 1210}
PageX0s == {10, 50}
PageWords == [top : PageTops, x0 : PageX0s]

\* the words of a page in the order the extractor returned them
Pages == UNION {[1..n -> PageWords] : n \in 0..MaxPageWords}

InitPage ==
    \E ws \in Pages :
    \E extractor \in {"pdf_to_xml", "pdf_to_xml_with_ocr"} :
        /\ page_words = ws
        /\ page_lines = <<>>
        /\ current_top = <<>>
        /\ pc = extractor
        /\ idx = 1
        /\ rules = [customers |-> <<>>, exact |-> <<>>, regex |-> <<>>]
        /\ xml = <<>> /\ xml0 = <<>> /\ reflow = NoLine
        /\ input = <<>> /\ text = <<>> /\ logs = <<>> /\ stage_logs = <<>>
        /\ last = NoStep /\ hist = <<>>
        /\ events = <<>> /\ ev = 1 /\ attempt = 0 /\ wlog = <<>> /\ poll = NoPoll
        /\ call = NoCall /\ config = "v1" /\ config_writes = 0 /\ trace = <<>> /\ warned = <<>> /\ outcome = NoOutcome /\ used = <<>>
        /\ fit_args = NoFit /\ fit_calls = <<>>

\* pdf_to_xml: words.sort(...) (line 225)
PdfSort ==
    /\ pc = "pdf_to_xml"
    /\ page_words' = sort_words(page_words)
    /\ pc' = "pdf_to_xml_loop"
    /\ UNCHANGED <<rules, idx, page_lines, current_top>>
    /\ UNCHANGED text_vars
    /\ UNCHANGED xml_vars
    /\ UNCHANGED fit_vars
    /\ UNCHANGED doc_vars
    /\ UNCHANGED watch_vars

\* pdf_to_xml: one iteration of `for word in words` (lines 228-259)
PdfWord ==
    /\ pc = "pdf_to_xml_loop"
    /\ idx <= Len(page_words)
    /\ \E r \in {group_word(page_lines, current_top, page_words[idx])} :
          /\ page_lines' = r.lines
          /\ current_top' = r.current_top
    /\ idx' = idx + 1
    /\ UNCHANGED <<rules, pc, page_words>>
    /\ UNCHANGED text_vars
    /\ UNCHANGED xml_vars
    /\ UNCHANGED fit_vars
    /\ UNCHANGED doc_vars
    /\ UNCHANGED watch_vars

\* pdf_to_xml_with_ocr: ocr_words.sort(...) (line 176)
OcrSort ==
    /\ pc = "pdf_to_xml_with_ocr"
    /\ page_words' = sort_words(page_words)
    /\ pc' = "pdf_to_xml_with_ocr_loop"
    /\ UNCHANGED <<rules, idx, page_lines, current_top>>
    /\ UNCHANGED text_vars
    /\ UNCHANGED xml_vars
    /\ UNCHANGED fit_vars
    /\ UNCHANGED doc_vars
    /\ UNCHANGED watch_vars

\* pdf_to_xml_with_ocr: one iteration of `for word in ocr_words` (lines 180-200)
OcrWord ==
    /\ pc = "pdf_to_xml_with_ocr_loop"
    /\ idx <= Len(page_words)
    /\ \E r \in {group_word(page_lines, current_top, page_words[idx])} :
          /\ page_lines' = r.lines
          /\ current_top' = r.current_top
    /\ idx' = idx + 1
    /\ UNCHANGED <<rules, pc, page_words>>
    /\ UNCHANGED text_vars
    /\ UNCHANGED xml_vars
    /\ UNCHANGED fit_vars
    /\ UNCHANGED doc_vars
    /\ UNCHANGED watch_vars

\* the page's loop is over
PageReturn ==
    /\ pc \in {"pdf_to_xml_loop", "pdf_to_xml_with_ocr_loop"}
    /\ idx > Len(page_words)
    /\ pc' = "page_done"
    /\ UNCHANGED <<rules, idx>>
    /\ UNCHANGED page_vars
    /\ UNCHANGED text_vars
    /\ UNCHANGED xml_vars
    /\ UNCHANGED fit_vars
    /\ UNCHANGED doc_vars
    /\ UNCHANGED watch_vars

NextPage ==
    \/ PdfSort
    \/ PdfWord
    \/ OcrSort
    \/ OcrWord
    \/ PageReturn

SpecGroup == InitPage /\ [][NextPage]_vars

(***************************************************************************)
(* _fit_text_to_width as a state machine: the calls made for one word      *)
(***************************************************************************)

\* words of up to MaxFitLen characters, and a word of twelve
FitTexts ==
    UNION {[1..n -> {"W", "i", "x"}] : n \in 0..MaxFitLen}
    \cup {[i \in 1..12 |-> "A"]}
FitFonts == {"Helvetica", "Arial"}
\* font sizes 3.0, 4.5 and 12.0
FitSizes == {Rat(3, 1), Rat(9, 2), Rat(12, 1)}
\* widths -1.0, 0.0, 0.5, 1.0, 2.0, 5.0, 20.0, 40.0 and 100.0
FitWidths == {Rat(0 - 1, 1), Rat(0, 1), Rat(1, 2), Rat(1, 1), Rat(2, 1), Rat(5, 1), Rat(20, 1),
              Rat(40, 1), Rat(100, 1)}

InitFit ==
    \E t \in FitTexts :
    \E font_name \in FitFonts :
    \E font_size \in FitSizes :
        /\ fit_args = [text |-> t, font_name |-> font_name, font_size |-> font_size]
        /\ fit_calls = <<>>
        /\ pc = "fit"
        /\ idx = 1
        /\ rules = [customers |-> <<>>, exact |-> <<>>, regex |-> <<>>]
        /\ xml = <<>> /\ xml0 = <<>> /\ reflow = NoLine
        /\ page_words = <<>> /\ page_lines = <<>> /\ current_top = <<>>
        /\ input = <<>> /\ text = <<>> /\ logs = <<>> /\ stage_logs = <<>>
        /\ last = NoStep /\ hist = <<>>
        /\ events = <<>> /\ ev = 1 /\ attempt = 0 /\ wlog = <<>> /\ poll = NoPoll
        /\ call = NoCall /\ config = "v1" /\ config_writes = 0 /\ trace = <<>> /\ warned = <<>> /\ outcome = NoOutcome /\ used = <<>>

\* one call _fit_text_to_width(text, font_name, font_size, max_width)
FitCall ==
    /\ pc = "fit"
    /\ Len(fit_calls) < MaxFitCalls
    /\ \E max_width \in FitWidths :
       \E r \in {fit_text_to_width(fit_args.text, fit_args.font_name,
                                   fit_args.font_size, max_width)} :
          fit_calls' = Append(fit_calls,
                              [max_width |-> max_width, text |-> r.text, size |-> r.size])
    /\ UNCHANGED <<rules, pc, idx, fit_args>>
    /\ UNCHANGED text_vars
    /\ UNCHANGED xml_vars
    /\ UNCHANGED page_vars
    /\ UNCHANGED doc_vars
    /\ UNCHANGED watch_vars

NextFit ==
    \/ FitCall

SpecFit == InitFit /\ [][NextFit]_vars

(***************************************************************************)
(* anonymize_pdf and anonymize_docx as a state machine.  A document is its *)
(* lines (paragraphs), each with text or blank; a configuration file is    *)
(* the name of the rule set in it, or missing, or not parseable.           *)
(***************************************************************************)

ConfigBad == {"missing", "invalid"}
Configs == {"v1", "v2"} \cup ConfigBad

\* load_rules raises (open or yaml.safe_load) on a bad file
load_rules(file) == [ok |-> file \notin ConfigBad, rules |-> file]

Ev(stage, strategy, line) == [stage |-> stage, strategy |-> strategy, line |-> line]
Used(strategy, line, rs) == [strategy |-> strategy, line |-> line, rules |-> rs]
Failure(strategy, cause) == [strategy |-> strategy, cause |-> cause]

IsText(l) == l = "text"
\* the lines pdfplumber / OCR words are grouped into: blank lines have no words
XmlLines == SelectSeq(call.lines, IsText)

DocLines == UNION {[1..n -> {"text", "blank"}] : n \in 0..MaxDocLines}
PdfFailures == SUBSET {"fitz.open", "doc.save", "ocr", "pdfplumber", "render"}
DocxFailures == SUBSET {"Document", "doc.save"}

InitDoc ==
    \E ls \in DocLines :
    \E file \in Configs :
    \E c \in [fn : {"anonymize_pdf"}, use_ocr : BOOLEAN, use_word_pipeline : BOOLEAN,
               lines : {ls}, fails : PdfFailures]
           \cup [fn : {"anonymize_docx"}, use_ocr : {FALSE}, use_word_pipeline : {FALSE},
                 lines : {ls}, fails : DocxFailures] :
        /\ call = c
        /\ config = file
        /\ config_writes = 0
        /\ trace = <<>>
        /\ warned = <<>>
        /\ outcome = NoOutcome
        /\ used = <<>>
        /\ pc = c.fn
        /\ idx = 1
        /\ rules = [customers |-> <<>>, exact |-> <<>>, regex |-> <<>>]
        /\ xml = <<>> /\ xml0 = <<>> /\ reflow = NoLine
        /\ page_words = <<>> /\ page_lines = <<>> /\ current_top = <<>>
        /\ fit_args = NoFit /\ fit_calls = <<>>
        /\ input = <<>> /\ text = <<>> /\ logs = <<>> /\ stage_logs = <<>>
        /\ last = NoStep /\ hist = <<>>
        /\ events = <<>> /\ ev = 1 /\ attempt = 0 /\ wlog = <<>> /\ poll = NoPoll

DocFrame ==
    /\ UNCHANGED rules
    /\ UNCHANGED text_vars
    /\ UNCHANGED xml_vars
    /\ UNCHANGED page_vars
    /\ UNCHANGED fit_vars
    /\ UNCHANGED watch_vars

\* the exception propagates to the caller of anonymize_pdf / anonymize_docx
Raise(failures) ==
    /\ outcome' = [outcome EXCEPT !.state = "raised", !.error = failures]
    /\ pc' = "raised"

\* another process rewrites the configuration file
ConfigWrite ==
    /\ pc \notin {"returned", "raised"}
    /\ config_writes < MaxConfigWrites
    /\ \E file \in Configs \ {config} : config' = file
    /\ config_writes' = config_writes + 1
    /\ UNCHANGED <<pc, idx, call, trace, warned, outcome, used>>
    /\ UNCHANGED watch_vars
    /\ DocFrame

\* anonymize_pdf, lines 388-398: which strategy comes first
PdfBegin ==
    /\ pc = "anonymize_pdf"
    /\ pc' = IF call.use_word_pipeline THEN "fitz.open" ELSE "extract"
    /\ UNCHANGED <<idx, call, config, config_writes, trace, warned, outcome, used>>
    /\ UNCHANGED watch_vars
    /\ DocFrame

\* anonymize_pdf_via_pymupdf: fitz.open(input_path) (line 603); every exception
\* of the function ends in the warning of lines 392-395
MuOpen ==
    /\ pc = "fitz.open"
    /\ trace' = Append(trace, Ev("Extract", "pymupdf", 0))
    /\ IF "fitz.open" \in call.fails
       THEN /\ warned' = Append(warned, Failure("pymupdf", "fitz.open"))
            /\ pc' = "extract"
       ELSE /\ pc' = "pymupdf_line"
            /\ UNCHANGED warned
            /\ UNCHANGED watch_vars
    /\ idx' = 1
    /\ UNCHANGED <<call, config, config_writes, outcome, used>>
    /\ UNCHANGED watch_vars
    /\ DocFrame

\* anonymize_pdf_via_pymupdf: one line of a text block (lines 615-655)
MuLine ==
    /\ pc = "pymupdf_line"
    /\ idx <= Len(call.lines)
    /\ IF ~IsText(call.lines[idx])
       THEN /\ idx' = idx + 1
            /\ UNCHANGED <<pc, trace, warned, used>>
            /\ UNCHANGED watch_vars
       ELSE IF ~load_rules(config).ok
       THEN /\ warned' = Append(warned, Failure("pymupdf", "load_rules"))
            /\ pc' = "extract"
            /\ idx' = 1
            /\ UNCHANGED <<trace, used>>
            /\ UNCHANGED watch_vars
       ELSE /\ trace' = Append(trace, Ev("Substitute", "pymupdf", idx))
            /\ used' = Append(used, Used("pymupdf", idx, load_rules(config).rules))
            /\ idx' = idx + 1
            /\ UNCHANGED <<pc, warned>>
    /\ UNCHANGED <<call, config, config_writes, outcome>>
    /\ UNCHANGED watch_vars
    /\ DocFrame

\* anonymize_pdf_via_pymupdf: doc.save(output_path) (line 658), then the
\* return of line 391
MuSave ==
    /\ pc = "pymupdf_line"
    /\ idx > Len(call.lines)
    /\ trace' = Append(trace, Ev("Render", "pymupdf", 0))
    /\ IF "doc.save" \in call.fails
       THEN /\ warned' = Append(warned, Failure("pymupdf", "doc.save"))
            /\ pc' = "extract"
            /\ idx' = 1
            /\ UNCHANGED outcome
            /\ UNCHANGED watch_vars
       ELSE /\ outcome' = [outcome EXCEPT !.state = "returned", !.written = TRUE]
            /\ pc' = "returned"
            /\ UNCHANGED <<warned, idx>>
    /\ UNCHANGED <<call, config, config_writes, used>>
    /\ UNCHANGED watch_vars
    /\ DocFrame

\* anonymize_pdf, lines 398-409: pdf_to_xml_with_ocr, with pdf_to_xml behind
\* it, or pdf_to_xml alone; each extracts the words and groups them
PdfExtract ==
    /\ pc = "extract"
    /\ LET ocr_tried == call.use_ocr
           ocr_ok == ocr_tried /\ "ocr" \notin call.fails
           plain_tried == ~ocr_ok
           plain_ok == plain_tried /\ "pdfplumber" \notin call.fails
           t1 == IF ocr_tried THEN Append(trace, Ev("Extract", "ocr", 0)) ELSE trace
           t2 == IF ocr_ok THEN Append(t1, Ev("Group", "ocr", 0)) ELSE t1
           t3 == IF plain_tried THEN Append(t2, Ev("Extract", "plain", 0)) ELSE t2
           t4 == IF plain_ok THEN Append(t3, Ev("Group", "plain", 0)) ELSE t3
       IN  /\ trace' = t4
           /\ warned' = IF ocr_tried /\ ~ocr_ok
                         THEN Append(warned, Failure("ocr", "ocr")) ELSE warned
           /\ IF ocr_ok \/ plain_ok
              THEN pc' = "anonymize_xml" /\ UNCHANGED outcome
              ELSE Raise(<<Failure("plain", "pdfplumber")>>)
    /\ idx' = 1
    /\ UNCHANGED <<call, config, config_writes, used>>
    /\ UNCHANGED watch_vars
    /\ DocFrame

\* anonymize_xml: one <line> (lines 267-308): anonymize_text, which loads the
\* rules (anonymizer_core.py line 47), then the token redistribution
PdfXmlLine ==
    /\ pc = "anonymize_xml"
    /\ idx <= Len(XmlLines)
    /\ IF ~load_rules(config).ok
       THEN /\ Raise(<<Failure("load_rules", config)>>)
            /\ UNCHANGED <<trace, used, idx>>
            /\ UNCHANGED watch_vars
       ELSE /\ trace' = trace \o <<Ev("Substitute", "xml", idx), Ev("Reflow", "xml", idx)>>
            /\ used' = Append(used, Used("xml", idx, load_rules(config).rules))
            /\ idx' = idx + 1
            /\ UNCHANGED <<pc, outcome>>
    /\ UNCHANGED <<call, config, config_writes, warned>>
    /\ UNCHANGED watch_vars
    /\ DocFrame

\* xml_to_pdf begins with no word left to draw
PdfXmlDoneNoFit ==
    /\ pc = "anonymize_xml"
    /\ idx > Len(XmlLines)
    /\ pc' = "xml_to_pdf"
    /\ idx' = Len(XmlLines) + 1
    /\ UNCHANGED <<call, config, config_writes, trace, warned, outcome, used>>
    /\ UNCHANGED watch_vars
    /\ DocFrame

\* anonymize_xml returns (line 310); xml_to_pdf begins (lines 314-319)
PdfXmlDone ==
    /\ pc = "anonymize_xml"
    /\ idx > Len(XmlLines)
    /\ pc' = "xml_to_pdf"
    /\ idx' = 1
    /\ UNCHANGED <<call, config, config_writes, trace, warned, outcome, used>>
    /\ UNCHANGED watch_vars
    /\ DocFrame

\* xml_to_pdf: the words of one line (lines 331-366): _fit_text_to_width, then
\* the word is drawn on the canvas
PdfFit ==
    /\ pc = "xml_to_pdf"
    /\ idx <= Len(XmlLines)
    /\ trace' = Append(trace, Ev("Fit", "xml", idx))
    /\ idx' = idx + 1
    /\ UNCHANGED <<pc, call, config, config_writes, warned, outcome, used>>
    /\ UNCHANGED watch_vars
    /\ DocFrame

\* xml_to_pdf: c.save() and the write of the output file (lines 370-372)
PdfRender ==
    /\ pc = "xml_to_pdf"
    /\ idx > Len(XmlLines)
    /\ trace' = Append(trace, Ev("Render", "xml", 0))
    /\ IF "render" \in call.fails
       THEN Raise(<<Failure("render", "render")>>)
       ELSE /\ outcome' = [outcome EXCEPT !.state = "returned", !.written = TRUE]
            /\ pc' = "returned"
    /\ UNCHANGED <<idx, call, config, config_writes, warned, used>>
    /\ UNCHANGED watch_vars
    /\ DocFrame

\* anonymize_docx: Document(input_path) (line 27)
DocxOpen ==
    /\ pc = "anonymize_docx"
    /\ trace' = Append(trace, Ev("Extract", "docx", 0))
    /\ IF "Document" \in call.fails
       THEN Raise(<<Failure("docx", "Document")>>)
       ELSE pc' = "docx_paragraph" /\ UNCHANGED outcome
    /\ idx' = 1
    /\ UNCHANGED <<call, config, config_writes, warned, used>>
    /\ UNCHANGED watch_vars
    /\ DocFrame

\* anonymize_docx: one paragraph, blank or not (lines 29-31)
DocxParagraph ==
    /\ pc = "docx_paragraph"
    /\ idx <= Len(call.lines)
    /\ IF ~load_rules(config).ok
       THEN /\ Raise(<<Failure("load_rules", config)>>)
            /\ UNCHANGED <<trace, used, idx>>
            /\ UNCHANGED watch_vars
       ELSE /\ trace' = Append(trace, Ev("Substitute", "docx", idx))
            /\ used' = Append(used, Used("docx", idx, load_rules(config).rules))
            /\ idx' = idx + 1
            /\ UNCHANGED <<pc, outcome>>
    /\ UNCHANGED <<call, config, config_writes, warned>>
    /\ UNCHANGED watch_vars
    /\ DocFrame

\* anonymize_docx: doc.save(out_path) (lines 33-35)
DocxSave ==
    /\ pc = "docx_paragraph"
    /\ idx > Len(call.lines)
    /\ trace' = Append(trace, Ev("Render", "docx", 0))
    /\ IF "doc.save" \in call.fails
       THEN Raise(<<Failure("docx", "doc.save")>>)
       ELSE /\ outcome' = [outcome EXCEPT !.state = "returned", !.written = TRUE]
            /\ pc' = "returned"
    /\ UNCHANGED <<idx, call, config, config_writes, warned, used>>
    /\ UNCHANGED watch_vars
    /\ DocFrame

NextDoc ==
    \/ ConfigWrite
    \/ PdfBegin
    \/ MuOpen
    \/ MuLine
    \/ MuSave
    \/ PdfExtract
    \/ PdfXmlLine
    \/ PdfXmlDone
    \/ PdfFit
    \/ PdfRender
    \/ DocxOpen
    \/ DocxParagraph
    \/ DocxSave

SpecDoc == InitDoc /\ [][NextDoc]_vars

\* the state machine returns what the function returns
StepsAgree ==
    /\ pc = "done" =>
          [text |-> text, logs |-> logs, raised |-> FALSE] = anonymize_text(input, rules)
    /\ pc = "raised" => anonymize_text(input, rules).raised

(***************************************************************************)
(* Substitution engine: the claims                                         *)
(***************************************************************************)

HistEntries == [i \in 1..Len(hist) |-> hist[i].entry]

\* (stage, rule, match) of h is before that of g
Before(h, g) ==
    \/ h.stage < g.stage
    \/ h.stage = g.stage /\ h.rule < g.rule
    \/ h.stage = g.stage /\ h.rule = g.rule /\ h.pos < g.pos

\* the replacement values stage 1 really put in the text
Inserted == {hist[i].entry[2] : i \in {i \in 1..Len(hist) : hist[i].stage = 1 /\ hist[i].changed}}

\* the pattern matches somewhere in s
HasMatch(pat, s) == \E q \in 1..Len(s) : MatchEnd(pat, 1, s, q) # 0

\* s holds an occurrence of r, and the pattern matches s from a position in it
MatchesInside(pat, r, s) ==
    \E p \in 1..Len(s) :
        /\ MatchesAt(r, s, p)
        /\ \E q \in p..(p + Len(r) - 1) : MatchEnd(pat, 1, s, q) # 0

\* C1 as stated: whenever a replacement value inserted by stage 1 contains an
\* exact key or a match of a regex pattern, that rule's log entry is in the
\* returned log and the returned text contains the rule's output.
C1_Original ==
    pc = "done" =>
        \A r \in Inserted :
            /\ \A k \in 1..Len(rules.exact) :
                  Contains(rules.exact[k][1], r) =>
                      /\ \E i \in 1..Len(hist) : hist[i].stage = 2 /\ hist[i].rule = k
                      /\ Contains(rules.exact[k][2], text)
            /\ \A k \in 1..Len(rules.regex) :
                  HasMatch(rules.regex[k].pattern, r) =>
                      /\ \E i \in 1..Len(hist) : hist[i].stage = 3 /\ hist[i].rule = k
                      /\ Contains(rules.regex[k].replacement_value, text)

\* C1 (amended): a later rule runs on the text the earlier stages produced.
\* When an exact key is reached and the current text still holds a replacement
\* value stage 1 inserted that contains the key, the key fires: its log entry
\* is appended and the text after the step contains its value.  When a regex
\* rule is reached and its pattern matches the current text inside such a
\* value, the rule fires: it logs a match and the text after the step
\* contains its replacement value.
C1_Cascading ==
    /\ (/\ last.op = "exact"
        /\ \E r \in Inserted : Contains(r, last.before) /\ Contains(last.orig, r))
       => /\ last.branch = "exact"
          /\ Len(stage_logs) = last.nlogs + 1
          /\ stage_logs[Len(stage_logs)] = <<last.orig, last.repl>>
          /\ Contains(last.repl, text)
    /\ (/\ last.op = "regex"
        /\ \E r \in Inserted : MatchesInside(rules.regex[last.rule].pattern, r, last.before))
       => /\ last.branch = "match"
          /\ Len(stage_logs) > last.nlogs
          /\ stage_logs[Len(stage_logs)][2] = last.repl
          /\ Contains(last.repl, text)

\* an exact key has just fired on a replacement value stage 1 inserted
C1_Witness ==
    /\ last.op = "exact"
    /\ last.branch = "exact"
    /\ \E r \in Inserted : Contains(r, last.before) /\ Contains(last.orig, r)
    /\ ~Contains(last.orig, input)

\* C2: the log is the entries in the order they were appended, and that order
\* is stage 1, then stage 2, then stage 3, within a stage by rule, within a
\* regex rule by match; nothing is removed, merged or reordered, at any time.
C2_LogOrder ==
    /\ logs \o stage_logs = HistEntries
    /\ \A i, j \in 1..Len(hist) : i < j => Before(hist[i], hist[j])
    /\ pc \in {"kb", "done"} => stage_logs = <<>>

\* a returned log with entries of all three stages, the regex rule with two matches
C2_Witness ==
    /\ pc = "done"
    /\ \E i, j, k \in 1..Len(logs) :
          /\ hist[i].stage = 1 /\ hist[j].stage = 2
          /\ hist[k].stage = 3 /\ hist[k].pos = 2

\* C4: for a candidate that is not a substring of the current text, the
\* case-insensitive substitution and the log entry happen if and only if the
\* partial-ratio score is at least 90.
C4_FuzzyBoundary ==
    (last.op = "kb" /\ ~Contains(last.orig, last.before)) =>
        IF last.score >= 90000
        THEN /\ text = ReSub(LiteralIgnoreCase(last.orig), last.repl, last.before).text
             /\ logs = Append(SubSeq(logs, 1, last.nlogs), <<last.orig, last.repl>>)
        ELSE /\ text = last.before
             /\ Len(logs) = last.nlogs

\* a candidate with score exactly 90 has just been substituted
C4_Witness ==
    /\ last.op = "kb"
    /\ ~Contains(last.orig, last.before)
    /\ last.score = 90000
    /\ text # last.before
    /\ Len(logs) = last.nlogs + 1

\* C5 as stated: a name or alias that the input text contains is not in the
\* returned text, and the customer's replacement value is.
C5_Original ==
    pc = "done" =>
        \A i \in 1..Len(Candidates(rules.customers)) :
            LET c == Candidates(rules.customers)[i]
            IN  Contains(c.candidate, input) =>
                    /\ ~Contains(c.candidate, text)
                    /\ Contains(c.replacement, text)

CharsOf(s) == {s[i] : i \in 1..Len(s)}

\* C5 (amended): when a candidate that the current text contains is reached, the
\* text right after its step contains the replacement value and the entry is
\* logged; the candidate is gone from it when the replacement value is not
\* empty and shares no character with the candidate.
C5_Redaction ==
    (last.op = "kb" /\ Contains(last.orig, last.before)) =>
        /\ Contains(last.repl, text)
        /\ logs = Append(SubSeq(logs, 1, last.nlogs), <<last.orig, last.repl>>)
        /\ (last.repl # <<>> /\ CharsOf(last.repl) \cap CharsOf(last.orig) = {})
               => ~Contains(last.orig, text)

\* a candidate occurring twice has just been replaced
C5_Witness ==
    /\ last.op = "kb"
    /\ \E p, q \in 1..Len(last.before) :
          p # q /\ MatchesAt(last.orig, last.before, p) /\ MatchesAt(last.orig, last.before, q)
    /\ ~Contains(last.orig, text)
    /\ Contains(last.repl, text)

(***************************************************************************)
(* Token reflow: the claims                                                *)
(***************************************************************************)

X0s(words) == [i \in 1..Len(words) |-> words[i].x0]
Texts(words) == [i \in 1..Len(words) |-> words[i].text]

\* the lines anonymize_xml has processed
Processed == {l \in 1..Len(xml) : l < idx}

\* C6: a processed line has the word elements it had, in the same order,
\* whatever the number of tokens of its new text.
C6_BoxCount ==
    /\ Len(xml) = Len(xml0)
    /\ \A l \in 1..Len(xml) :
          /\ Len(xml[l]) = Len(xml0[l])
          /\ X0s(xml[l]) = X0s(xml0[l])

\* a three-box line has been processed whose new text has no token
C6_Witness ==
    /\ reflow.line = 1
    /\ Len(xml0[1]) = 3
    /\ reflow.new_line # <<>>
    /\ reflow.new_tokens = <<>>
    /\ Texts(xml[1]) = << <<>>, <<>>, <<>> >>

\* the tokens box i (0-indexed) gets when M tokens go to N < M boxes
Share(tokens, N, i) ==
    LET M == Len(tokens)
        base == M \div N
        remainder == M % N
        count == IF i < remainder THEN base + 1 ELSE base
        start == i * base + (IF i < remainder THEN i ELSE remainder)
    IN  [k \in 1..count |-> tokens[start + k]]

C8_FewerTokens ==
    \A l \in Processed :
        (l = reflow.line /\ xml0[l] # <<>> /\ Len(reflow.new_tokens) <= Len(xml[l])) =>
            \A i \in 1..Len(xml[l]) :
                xml[l][i].text =
                    IF i <= Len(reflow.new_tokens) THEN reflow.new_tokens[i] ELSE <<>>

\* N = 5, M = 2: two filled boxes, three empty ones
C8_Witness ==
    /\ reflow.line = 1
    /\ Len(xml0[1]) = 5
    /\ Len(reflow.new_tokens) = 2
    /\ Texts(xml[1]) = <<KFC, KFC, <<>>, <<>>, <<>>>>
    /\ Texts(xml0[1]) = <<ESPANA, KFC, ESPANA, KFC, ESPANA>>

\* exact_replacements {"KFC": "ABC S.A."} and the line Cliente: KFC España
Scenario ==
    /\ rules = [customers |-> <<>>, exact |-> << <<KFC, ABC \o SP \o SA>> >>, regex |-> <<>>]
    /\ Texts(xml0[1]) = <<CLIENTE, KFC, ESPANA>>
    /\ reflow.line = 1

TokenCounts(words) == [i \in 1..Len(words) |-> Len(Tokens(words[i].text))]

\* C9 as stated: the scenario gives "Cliente: ABC S.A. España", and boxes 0 and
\* 1 get 2 tokens each, box 2 gets 1.
C9_Original ==
    Scenario =>
        /\ reflow.new_line = CLIENTE \o SP \o ABC \o SP \o SA \o SP \o ESPANA
        /\ TokenCounts(xml[1]) = <<2, 2, 1>>

\* C9 (amended): the scenario gives "Cliente: ABC S.A. España", four tokens on
\* three boxes: box 0 gets 2 tokens (Cliente: ABC), boxes 1 and 2 one each.
C9_EndToEnd ==
    Scenario =>
        /\ reflow.new_line = CLIENTE \o SP \o ABC \o SP \o SA \o SP \o ESPANA
        /\ Texts(xml[1]) = <<CLIENTE \o SP \o ABC, SA, ESPANA>>
        /\ TokenCounts(xml[1]) = <<2, 1, 1>>

\* the scenario's line has been processed
C9_Witness ==
    /\ Scenario
    /\ reflow.original_line = CLIENTE \o SP \o KFC \o SP \o ESPANA
    /\ Len(reflow.new_tokens) = 4

(***************************************************************************)
(* Line grouping: the claims                                               *)
(***************************************************************************)

\* C10: in every line the grouping loops produce, the words are in ascending
\* x0 order.
C10_Original ==
    \A l \in 1..Len(page_lines) :
        \A i, j \in 1..Len(page_lines[l].words) :
            i < j => page_lines[l].words[i].x0 <= page_lines[l].words[j].x0

\* what the loops do keep: the words of a line are in ascending order of
\* (round(top, 1), x0), and their rounded tops are within the tolerance of
\* the line's first word
KeyOrder ==
    \A l \in 1..Len(page_lines) :
        \A i, j \in 1..Len(page_lines[l].words) :
            i < j =>
                /\ ~KeyLess(page_lines[l].words[j], page_lines[l].words[i])
                /\ Round1(page_lines[l].words[j].top) - page_lines[l].top <= tolerance

(***************************************************************************)
(* Text fit: the claims                                                    *)
(***************************************************************************)

FitCalls == {fit_calls[i] : i \in 1..Len(fit_calls)}

\* C11: the font size returned is <= the input font size and the text
\* returned is no longer than the input text.
C11_Original ==
    \A c \in FitCalls :
        /\ RatLE(c.size, fit_args.font_size)
        /\ Len(c.text) <= Len(fit_args.text)

\* C12: of two calls with the same text, font and font size and widths
\* w1 >= w2, the call with w2 returns a font size <= that of the call with w1.
C12_Original ==
    \A c1, c2 \in FitCalls :
        RatLE(c2.max_width, c1.max_width) => RatLE(c2.size, c1.size)

\* C13: for a non-empty text and a width > 0, the width of the returned text
\* at the returned size, by _get_text_width, is <= the width asked for.
C13_Original ==
    \A c \in FitCalls :
        (fit_args.text # <<>> /\ c.max_width.n > 0) =>
            RatLE(get_text_width(c.text, fit_args.font_name, c.size), c.max_width)

(***************************************************************************)
(* anonymize_pdf and anonymize_docx: the claims                            *)
(***************************************************************************)

\* C14: within one invocation every line or paragraph is substituted under
\* the same rule set, whatever happens to the configuration file meanwhile.
C14_Original ==
    \A i, j \in 1..Len(used) :
        used[i].strategy = used[j].strategy => used[i].rules = used[j].rules

\* the strategies anonymize_pdf has attempted, in order
Attempts ==
    LET IsAttempt(e) == e.stage = "Extract" /\ e.strategy \in {"pymupdf", "ocr", "plain"}
        es == SelectSeq(trace, IsAttempt)
    IN  [i \in 1..Len(es) |-> es[i].strategy]

StrategyRank(s) == CASE s = "pymupdf" -> 1 [] s = "ocr" -> 2 [] s = "plain" -> 3

\* the call raised because its last strategy failed
Exhausted ==
    /\ outcome.state = "raised"
    /\ \E k \in 1..Len(outcome.error) : outcome.error[k].strategy = "plain"

\* C15: the strategies are tried in a fixed order, each at most once; when
\* all attempted strategies have failed, the error raised names every
\* attempted strategy with its cause.
C15_Original ==
    /\ \A i, j \in 1..Len(Attempts) :
          i < j => StrategyRank(Attempts[i]) < StrategyRank(Attempts[j])
    /\ Exhausted =>
          {outcome.error[k].strategy : k \in 1..Len(outcome.error)}
              = {Attempts[i] : i \in 1..Len(Attempts)}

\* C16: with a rule source that is missing or invalid, the call raises before
\* the input document is opened and before any output is written.
C16_Original ==
    (config \in ConfigBad /\ config_writes = 0) =>
        /\ \A k \in 1..Len(trace) : trace[k].stage # "Extract"
        /\ ~outcome.written
        /\ outcome.state # "returned"

\* Extract, Group, Substitute and Reflow line by line, Fit line by line,
\* Render: the stages of the XML pipeline over n lines, extracted by s
Pipeline(s, n) ==
    <<Ev("Extract", s, 0), Ev("Group", s, 0)>>
    \o [k \in 1..(2 * n) |->
           IF k % 2 = 1 THEN Ev("Substitute", "xml", (k + 1) \div 2)
           ELSE Ev("Reflow", "xml", k \div 2)]
    \o [k \in 1..n |-> Ev("Fit", "xml", k)]
    \o <<Ev("Render", "xml", 0)>>

\* the direct edit over the lines ls: Extract, Substitute for each line with
\* text, Render
DirectEdit(ls) ==
    LET Texts1 == SelectSeq([k \in 1..Len(ls) |-> k], LAMBDA k : IsText(ls[k]))
    IN  <<Ev("Extract", "pymupdf", 0)>>
        \o [k \in 1..Len(Texts1) |-> Ev("Substitute", "pymupdf", Texts1[k])]
        \o <<Ev("Render", "pymupdf", 0)>>

\* where the last Extract of the trace is
LastExtract ==
    LET ks == {k \in 1..Len(trace) : trace[k].stage = "Extract"}
    IN  CHOOSE k \in ks : \A m \in ks : m <= k

\* C17 as stated: an anonymize_pdf invocation that has written an output has
\* run Extract, Group, Substitute, Reflow, Fit, Render in that order, each
\* once, none skipped.
C17_Original ==
    (call.fn = "anonymize_pdf" /\ outcome.written) =>
        \E s \in {"ocr", "plain"} : trace = Pipeline(s, Len(XmlLines))

\* C17 (amended): an anonymize_pdf invocation that has written an output
\* either wrote it by the direct edit, having run Extract, Substitute for
\* each line and Render only, or wrote it by xml_to_pdf, and then from its
\* last extraction on it ran Extract, Group, Substitute and Reflow for each
\* line, Fit for each line, Render, in that order and nothing else.
C17_Pipeline ==
    (call.fn = "anonymize_pdf" /\ outcome.written) =>
        IF trace[Len(trace)].strategy = "pymupdf"
        THEN trace = DirectEdit(call.lines)
        ELSE \E s \in {"ocr", "plain"} :
                SubSeq(trace, LastExtract, Len(trace)) = Pipeline(s, Len(XmlLines))

\* the direct edit failed at doc.save after substituting two lines, and the
\* XML pipeline wrote the output
C17_Witness ==
    /\ call.fn = "anonymize_pdf"
    /\ outcome.written
    /\ Len(XmlLines) = 2
    /\ warned = <<Failure("pymupdf", "doc.save")>>
    /\ trace[Len(trace)] = Ev("Render", "xml", 0)

(***************************************************************************)
(* Rule errors: the claims                                                 *)
(***************************************************************************)

AllCompile == \A k \in 1..Len(rules.regex) : Compiles(rules.regex[k].pattern)

\* C18: anonymize_text raises only at a regex rule whose pattern is invalid,
\* reached after the knowledge-base pass, the exact pass and the regex rules
\* before it; with no invalid pattern in the rules it never raises.
C18_Original ==
    pc = "raised" =>
        /\ ~AllCompile
        /\ last.op = "raise_regex"
        /\ ~Compiles(rules.regex[last.rule].pattern)
        /\ \A k \in 1..(last.rule - 1) : Compiles(rules.regex[k].pattern)

(***************************************************************************)
(* watcher.py: AnonymizeHandler.on_created, one call per event             *)
(***************************************************************************)

MaxEvents == 3

\* `attempts: int = 6`
attempts == 6

\* what path.stat() does: st_size, or the OSError it raises
StatSizes == {0, 10, 20}
StatOutcomes ==
    {[error |-> "none", st_size |-> n] : n \in StatSizes}
    \cup {[error |-> e, st_size |-> 0] : e \in {"FileNotFoundError", "PermissionError"}}
OpenOutcomes == {"ok", "OSError"}
\* what anonymize_docx / anonymize_pdf does
HandlerOutcomes == {"ok", "Exception"}

EventKinds == {"directory", ".docx", ".pdf", ".txt"}
EventSeqs == UNION {[1..n -> EventKinds] : n \in 1..MaxEvents}

\* `return True` as soon as the size is the same after the delay, the file
\* not opened
wait_attempt_unopened(exists, stat1, stat2, open) ==
    IF ~exists THEN "continue"
    ELSE IF stat1.error = "FileNotFoundError" THEN "continue"
    ELSE IF stat1.error # "none" THEN stat1.error
    ELSE IF stat2.error = "FileNotFoundError" THEN "continue"
    ELSE IF stat2.error # "none" THEN stat2.error
    ELSE IF stat1.st_size = 0 \/ stat1.st_size # stat2.st_size THEN "continue"
    ELSE "True"

\* one iteration of the loop of _wait_for_stable_file (lines 27-52), given
\* what the file system answers: "continue", "True" for `return True`, or
\* the exception that leaves the function
wait_attempt(exists, stat1, stat2, open) ==
    IF ~exists THEN "continue"
    ELSE IF stat1.error = "FileNotFoundError" THEN "continue"
    ELSE IF stat1.error # "none" THEN stat1.error
    ELSE IF stat2.error = "FileNotFoundError" THEN "continue"
    ELSE IF stat2.error # "none" THEN stat2.error
    ELSE IF stat1.st_size = 0 \/ stat1.st_size # stat2.st_size THEN "continue"
    ELSE IF open = "ok" THEN "True"
    ELSE "continue"

\* what that iteration has learnt from the file system
seen(exists, stat1, stat2, open) ==
    IF ~exists THEN [NoPoll EXCEPT !.exists = "False"]
    ELSE IF stat1.error # "none" THEN [NoPoll EXCEPT !.exists = "True"]
    ELSE IF stat2.error # "none"
    THEN [NoPoll EXCEPT !.exists = "True", !.size_before = stat1.st_size]
    ELSE IF stat1.st_size = 0 \/ stat1.st_size # stat2.st_size
    THEN [NoPoll EXCEPT !.exists = "True", !.size_before = stat1.st_size,
                        !.size_after = stat2.st_size]
    ELSE [exists |-> "True", size_before |-> stat1.st_size, size_after |-> stat2.st_size,
          opened |-> open]

\* the answers of the file system to one iteration; a question the
\* iteration never reaches has the one answer Unasked
Unasked == [error |-> "none", st_size |-> 0]

PollAnswers ==
    {a \in [exists : BOOLEAN, stat1 : StatOutcomes, stat2 : StatOutcomes, open : OpenOutcomes] :
        /\ ~a.exists => a.stat1 = Unasked
        /\ (~a.exists \/ a.stat1.error # "none") => a.stat2 = Unasked
        /\ seen(a.exists, a.stat1, a.stat2, a.open).opened = "-" => a.open = "ok"}

InitWatch ==
    \E es \in EventSeqs :
        /\ events = es
        /\ ev = 1
        /\ attempt = 0
        /\ wlog = <<>>
        /\ poll = NoPoll
        /\ pc = "observer"
        /\ idx = 1
        /\ rules = [customers |-> <<>>, exact |-> <<>>, regex |-> <<>>]
        /\ xml = <<>> /\ xml0 = <<>> /\ reflow = NoLine
        /\ input = <<>> /\ text = <<>> /\ logs = <<>> /\ stage_logs = <<>>
        /\ last = NoStep /\ hist = <<>>
        /\ call = NoCall /\ config = "v1" /\ config_writes = 0 /\ trace = <<>> /\ warned = <<>> /\ outcome = NoOutcome /\ used = <<>>
        /\ fit_args = NoFit /\ fit_calls = <<>>
        /\ page_words = <<>> /\ page_lines = <<>> /\ current_top = <<>>

WatchFrame ==
    /\ UNCHANGED <<rules, idx, events>>
    /\ UNCHANGED text_vars
    /\ UNCHANGED xml_vars
    /\ UNCHANGED page_vars
    /\ UNCHANGED fit_vars
    /\ UNCHANGED doc_vars

\* the observer calls on_created(event) (lines 56-60)
OnCreated ==
    /\ pc = "observer"
    /\ ev <= Len(events)
    /\ IF events[ev] = "directory"
       THEN /\ pc' = "observer"
            /\ ev' = ev + 1
            /\ wlog' = wlog
       ELSE /\ pc' = "wait"
            /\ ev' = ev
            /\ wlog' = Append(wlog, <<"detected", ev>>)
    /\ attempt' = 0
    /\ poll' = NoPoll
    /\ WatchFrame

\* one iteration of the loop of _wait_for_stable_file, called at line 62
\* outside the try statement of on_created
WaitAttempt ==
    /\ pc = "wait"
    /\ attempt < attempts
    /\ \E a \in PollAnswers :
          LET r == wait_attempt(a.exists, a.stat1, a.stat2, a.open)
          IN  /\ pc' = CASE r = "continue" -> "wait"
                         [] r = "True" -> "process"
                         [] OTHER -> "escaped"
              /\ attempt' = IF r = "continue" THEN attempt + 1 ELSE attempt
              /\ poll' = seen(a.exists, a.stat1, a.stat2, a.open)
    /\ UNCHANGED <<ev, wlog>>
    /\ WatchFrame

\* `return False` (line 54), and on_created prints and returns (lines 62-64)
WaitGiveUp ==
    /\ pc = "wait"
    /\ attempt = attempts
    /\ wlog' = Append(wlog, <<"still being written", ev>>)
    /\ ev' = ev + 1
    /\ pc' = "observer"
    /\ attempt' = attempt
    /\ poll' = NoPoll
    /\ WatchFrame

\* the try statement of on_created (lines 69-79)
Process ==
    /\ pc = "process"
    /\ \E r \in HandlerOutcomes :
          wlog' = Append(wlog,
                         IF events[ev] \notin {".docx", ".pdf"} THEN <<"unsupported", ev>>
                         ELSE IF r = "ok" THEN <<"saved", ev>>
                         ELSE <<"failed", ev>>)
    /\ ev' = ev + 1
    /\ pc' = "observer"
    /\ attempt' = attempt
    /\ poll' = NoPoll
    /\ WatchFrame

NextWatch ==
    \/ OnCreated
    \/ WaitAttempt
    \/ WaitGiveUp
    \/ Process

SpecWatch == InitWatch /\ [][NextWatch]_vars

(***************************************************************************)
(* Watcher: the claims                                                     *)
(***************************************************************************)

\* an event on_created has returned from has printed how it ended, unless
\* it was a directory
Logged(e) ==
    \/ events[e] = "directory"
    \/ \E k \in 1..Len(wlog) :
          wlog[k][2] = e /\ wlog[k][1] \in {"saved", "failed", "unsupported", "still being written"}

\* C19: whatever fails while one file-created event is handled is caught
\* and logged inside on_created: no exception leaves the handler, and the
\* events after it are handled.
C19_Original ==
    /\ pc # "escaped"
    /\ \A e \in 1..(ev - 1) : Logged(e)

(***************************************************************************)
(* Knowledge base, exact branch: the claims                                *)
(***************************************************************************)

Hits(s, sub) == {p \in 1..Len(s) : MatchesAt(sub, s, p)}

\* S holds the occurrences of sub in s that a scan from the left meets:
\* they do not overlap, and any other occurrence overlaps an earlier one of S
ScanOf(S, s, sub) ==
    /\ S \subseteq Hits(s, sub)
    /\ \A p, q \in S : p < q => p + Len(sub) <= q
    /\ \A q \in Hits(s, sub) \ S : \E p \in S : p < q /\ q < p + Len(sub)

\* after is before with repl in the place of sub at the positions of S, and
\* every other character kept in its order
ReplacedAt(S, before, after, sub, repl) ==
    LET d == Len(repl) - Len(sub)
        at(i) == i + d * Cardinality({p \in S : p < i})
    IN  /\ Len(after) = Len(before) + d * Cardinality(S)
        /\ \A p \in S : SubSeq(after, at(p), at(p) + Len(repl) - 1) = repl
        /\ \A i \in 1..Len(before) :
              (\A p \in S : i < p \/ i >= p + Len(sub)) => after[at(i)] = before[i]

RawNames(c) == <<rules.customers[c].name>> \o rules.customers[c].aliases

\* the candidates are the non-empty names of the customers in list order,
\* each customer's name before its aliases
InListOrder ==
    LET cs == Candidates(rules.customers)
    IN  /\ \A i \in 1..Len(cs) : cs[i].candidate # <<>>
        /\ \A c \in 1..Len(rules.customers) : \A p \in 1..Len(RawNames(c)) :
              RawNames(c)[p] # <<>> =>
                  \E i \in 1..Len(cs) : cs[i].customer = c /\ cs[i].candidate = RawNames(c)[p]
        /\ \A i, j \in 1..Len(cs) : i < j =>
              \/ cs[i].customer < cs[j].customer
              \/ /\ cs[i].customer = cs[j].customer
                 /\ \E p, q \in 1..Len(RawNames(cs[i].customer)) :
                       /\ p < q
                       /\ RawNames(cs[i].customer)[p] = cs[i].candidate
                       /\ RawNames(cs[i].customer)[q] = cs[j].candidate

\* C20: the knowledge-base pass takes the non-empty candidates in list
\* order, each customer's name before its aliases; a candidate that occurs in
\* the current text has all its occurrences replaced by the replacement, adds
\* exactly one log entry (candidate, replacement), and is not given to the
\* fuzzy check.
C20_KbExact ==
    last.op = "kb" =>
        /\ InListOrder
        /\ last.orig = Candidates(rules.customers)[last.rule].candidate
        /\ last.repl = rules.customers[Candidates(rules.customers)[last.rule].customer].replacement
        /\ pc = "kb" => idx = last.rule + 1
        /\ Contains(last.orig, last.before) =>
              /\ \E S \in SUBSET Hits(last.before, last.orig) :
                    /\ ScanOf(S, last.before, last.orig)
                    /\ ReplacedAt(S, last.before, text, last.orig, last.repl)
              /\ logs = SubSeq(logs, 1, last.nlogs) \o << <<last.orig, last.repl>> >>
              /\ Len(logs) = last.nlogs + 1
              /\ last.branch = "exact"

\* an alias, tried after its customer's name, occurred twice in the text and
\* both occurrences have been replaced
C20_Witness ==
    /\ last.op = "kb"
    /\ last.branch = "exact"
    /\ last.rule >= 2
    /\ Candidates(rules.customers)[last.rule].customer
           = Candidates(rules.customers)[last.rule - 1].customer
    /\ Cardinality(Hits(last.before, last.orig)) >= 2
    /\ Hits(text, last.orig) = {}
    /\ Len(logs) = last.nlogs + 1

(***************************************************************************)
(* Exact map pass: the claims                                              *)
(***************************************************************************)

\* C21: apply_exact_replacements takes the keys in insertion order; a key
\* that occurs in the current text, the text an earlier key produced
\* included, has all its occurrences replaced by its value and adds exactly
\* one log entry (key, value); a key that does not occur leaves the text and
\* the log as they were.
C21_ExactPass ==
    last.op = "exact" =>
        /\ pc = "exact" => idx = last.rule + 1
        /\ <<last.orig, last.repl>> = rules.exact[last.rule]
        /\ Contains(last.orig, last.before) =>
              /\ \E S \in SUBSET Hits(last.before, last.orig) :
                    /\ ScanOf(S, last.before, last.orig)
                    /\ ReplacedAt(S, last.before, text, last.orig, last.repl)
              /\ stage_logs = SubSeq(stage_logs, 1, last.nlogs) \o <<rules.exact[last.rule]>>
              /\ Len(stage_logs) = last.nlogs + 1
        /\ ~Contains(last.orig, last.before) =>
              /\ text = last.before
              /\ Len(stage_logs) = last.nlogs

\* the second key was not in the input: it occurred, twice, in what the
\* first key had produced, and has been replaced
C21_Witness ==
    /\ last.op = "exact"
    /\ last.rule = 2
    /\ ~Contains(last.orig, input)
    /\ Cardinality(Hits(last.before, last.orig)) >= 2
    /\ text # last.before
    /\ Len(stage_logs) = 2

(***************************************************************************)
(* Regex pass: the claims                                                  *)
(***************************************************************************)

\* the atoms k.. of pat match m from i to its end
RECURSIVE FullMatchFrom(_, _, _, _)
FullMatchFrom(pat, k, m, i) ==
    IF k > Len(pat) THEN i = Len(m) + 1
    ELSE \E j \in i..Len(m) :
            /\ \A c \in i..j : m[c] \in pat[k].chars
            /\ pat[k].plus \/ j = i
            /\ FullMatchFrom(pat, k + 1, m, j + 1)

\* the lengths of the matches of pat in s that start at p
MatchLens(pat, s, p) ==
    {n \in 1..(Len(s) - p + 1) : FullMatchFrom(pat, 1, SubSeq(s, p, p + n - 1), 1)}

Starts(pat, s) == {p \in 1..Len(s) : MatchLens(pat, s, p) # {}}

LongestAt(pat, s, p) ==
    CHOOSE n \in MatchLens(pat, s, p) : \A o \in MatchLens(pat, s, p) : o <= n

\* S holds the starts of the matches a scan from the left finds
RegexScanOf(S, pat, s) ==
    /\ S \subseteq Starts(pat, s)
    /\ \A p, q \in S : p < q => p + LongestAt(pat, s, p) <= q
    /\ \A q \in Starts(pat, s) \ S : \E p \in S : p < q /\ q < p + LongestAt(pat, s, p)

RECURSIVE SumLen(_, _)
SumLen(es, k) == IF k = 0 THEN 0 ELSE Len(es[k][1]) + SumLen(es, k - 1)

\* es are the log entries of the matches that start at S, in order, and
\* after is before with value in the place of each of them
RegexReplacedAt(S, pat, before, after, value, es) ==
    LET rank(i) == Cardinality({p \in S : p < i})
        at(i) == i + rank(i) * Len(value) - SumLen(es, rank(i))
    IN  /\ Len(es) = Cardinality(S)
        /\ \A p \in S :
              /\ es[rank(p) + 1] = <<SubSeq(before, p, p + LongestAt(pat, before, p) - 1), value>>
              /\ SubSeq(after, at(p), at(p) + Len(value) - 1) = value
        /\ Len(after) = Len(before) + Len(es) * Len(value) - SumLen(es, Len(es))
        /\ \A i \in 1..Len(before) :
              (\A p \in S : i < p \/ i >= p + LongestAt(pat, before, p)) =>
                  after[at(i)] = before[i]

\* C22: the regex pass takes the rules in list order; each rule replaces
\* every match a scan from the left finds in the current text by
\* replacement_value and adds one log entry (matched text, replacement_value)
\* per match, in that order, whatever the rule's replacement_type is.
C22_RegexPass ==
    last.op = "regex" =>
        /\ pc = "regex" => idx = last.rule + 1
        /\ last.repl = rules.regex[last.rule].replacement_value
        /\ \E S \in SUBSET Starts(rules.regex[last.rule].pattern, last.before) :
              /\ RegexScanOf(S, rules.regex[last.rule].pattern, last.before)
              /\ RegexReplacedAt(S, rules.regex[last.rule].pattern, last.before, text, last.repl,
                                 SubSeq(stage_logs, last.nlogs + 1, Len(stage_logs)))

\* a rule whose type is not "mask" has replaced two matches
C22_Witness ==
    /\ last.op = "regex"
    /\ rules.regex[last.rule].replacement_type # "mask"
    /\ Len(stage_logs) = last.nlogs + 2
    /\ stage_logs[last.nlogs + 1] # stage_logs[last.nlogs + 2]
    /\ text # last.before

(***************************************************************************)
(* Line grouping: the claims                                               *)
(***************************************************************************)

\* the words of the lines l.., in line order
RECURSIVE FlatWords(_, _)
FlatWords(ls, l) == IF l > Len(ls) THEN <<>> ELSE ls[l].words \o FlatWords(ls, l + 1)

FitWidth == get_text_width(fit_args.text, fit_args.font_name, fit_args.font_size)

\* fontSize * (A / W) >= 4.0, for W > 0, with the division multiplied out
AtLeastFloor(max_width) == RatLE(RatMul(min_font_size, FitWidth), RatMul(fit_args.font_size, max_width))

\* C24: a call whose text is no wider than the width asked for returns the
\* text and the font size as they are; a call whose text is wider, with
\* fontSize * (A / W) >= 4.0, returns the text as it is and that size.
C24_Shrink ==
    \A c \in FitCalls :
        /\ RatLE(FitWidth, c.max_width) =>
              c.text = fit_args.text /\ c.size = fit_args.font_size
        /\ (~RatLE(FitWidth, c.max_width) /\ AtLeastFloor(c.max_width)) =>
              /\ c.text = fit_args.text
              /\ RatMul(c.size, FitWidth) = RatMul(fit_args.font_size, c.max_width)

\* one call shrank the text to exactly the floor size, another left a text
\* that fits as it was
C24_Witness ==
    \E c1, c2 \in FitCalls :
        /\ ~RatLE(FitWidth, c1.max_width)
        /\ c1.size = min_font_size
        /\ c1.size # fit_args.font_size
        /\ c1.text = fit_args.text
        /\ RatLE(FitWidth, c2.max_width)
        /\ fit_args.text # <<>>
        /\ c2.size = fit_args.font_size

\* fontSize * (A / W) < 4.0 for the text of the calls, which has a width W > 0
BelowFloor(max_width) ==
    /\ fit_args.text # <<>>
    /\ ~RatLE(FitWidth, max_width)
    /\ ~AtLeastFloor(max_width)

\* the first max(1, chars - 3) characters and the ellipsis, with
\* chars = floor(length(text) * A / W)
Truncated(max_width) ==
    LET chars == RatInt(RatDiv(RatMul(Rat(Len(fit_args.text), 1), max_width), FitWidth))
    IN  SubSeq(fit_args.text, 1, Max(1, chars - 3)) \o Ellipsis

EndsWithEllipsis(t) ==
    Len(t) > Len(Ellipsis) /\ SubSeq(t, Len(t) - Len(Ellipsis) + 1, Len(t)) = Ellipsis

\* C25: whenever fontSize * (A / W) is below 4.0 the call returns the font
\* size 4.0 and the first max(1, chars - 3) characters of the text followed
\* by "..."; and every result at the font size 4.0 is such a truncated text.
C25_Original ==
    \A c \in FitCalls :
        /\ BelowFloor(c.max_width) =>
              /\ c.size = min_font_size
              /\ c.text = Truncated(c.max_width)
              /\ Len(c.text) >= 1 + Len(Ellipsis)
        /\ c.size = min_font_size => EndsWithEllipsis(c.text)

\* what the code does keep: the truncation, for a width asked for that is > 0
TruncationAtPositiveWidth ==
    \A c \in FitCalls :
        (BelowFloor(c.max_width) /\ c.max_width.n > 0) =>
            /\ c.size = min_font_size
            /\ c.text = Truncated(c.max_width)

(***************************************************************************)
(* anonymize_xml on lines whose replacement values hold white space        *)
(***************************************************************************)

TAB == <<"\t">>
NEWLINE == <<"\n">>
TokenWords == {KFC, ABC, CLI, <<>>}
TokenExact ==
    {<<KFC, <<"X">> \o TAB \o <<"Y">>>>,
     <<ABC, <<"X">> \o NEWLINE \o <<"Y">>>>,
     <<CLI, <<"X">> \o SP \o <<"Y">>>>}

InitTokens ==
    \E first \in BoxLines(TokenWords, MaxBoxes) :
    \E rs \in RuleSets({}, TokenExact, {}) :
        /\ rules = rs
        /\ xml = <<first>>
        /\ xml0 = <<first>>
        /\ reflow = NoLine
        /\ page_words = <<>> /\ page_lines = <<>> /\ current_top = <<>>
        /\ pc = "xml"
        /\ idx = 1
        /\ input = <<>> /\ text = <<>> /\ logs = <<>> /\ stage_logs = <<>>
        /\ last = NoStep /\ hist = <<>>
        /\ events = <<>> /\ ev = 1 /\ attempt = 0 /\ wlog = <<>> /\ poll = NoPoll
        /\ call = NoCall /\ config = "v1" /\ config_writes = 0 /\ trace = <<>> /\ warned = <<>> /\ outcome = NoOutcome /\ used = <<>>
        /\ fit_args = NoFit /\ fit_calls = <<>>

SpecTokens == InitTokens /\ [][NextXml]_vars

\* the characters str.isspace() holds for, of those used here
Whitespace == {" ", "\t", "\n"}

\* the starts of the maximal runs of s without white space
RunStarts(s) ==
    {i \in 1..Len(s) : s[i] \notin Whitespace /\ (i = 1 \/ s[i - 1] \in Whitespace)}

\* C26: the tokens of a line are the maximal runs of its new text
\* without white space: no token holds a white space character, and there
\* are as many tokens as runs.
C26_Original ==
    reflow.line # 0 =>
        /\ \A k \in 1..Len(reflow.new_tokens) :
              \A c \in 1..Len(reflow.new_tokens[k]) : reflow.new_tokens[k][c] \notin Whitespace
        /\ Len(reflow.new_tokens) = Cardinality(RunStarts(reflow.new_line))

\* what the code does keep: the tokens are the maximal runs without a space
SpaceRuns ==
    reflow.line # 0 =>
        /\ \A k \in 1..Len(reflow.new_tokens) :
              \A c \in 1..Len(reflow.new_tokens[k]) : reflow.new_tokens[k][c] # " "
        /\ Len(reflow.new_tokens)
               = Cardinality({i \in 1..Len(reflow.new_line) :
                                 /\ reflow.new_line[i] # " "
                                 /\ (i = 1 \/ reflow.new_line[i - 1] = " ")})

(***************************************************************************)
(* Reflow, the line as a whole: the claims                                 *)
(***************************************************************************)

\* the tokens of the texts of the boxes i.., in box order
RECURSIVE BoxTokens(_, _)
BoxTokens(words, i) ==
    IF i > Len(words) THEN <<>> ELSE Tokens(words[i].text) \o BoxTokens(words, i + 1)

\* C27: after a line of N >= 1 boxes is processed, the tokens of its
\* boxes' texts, taken in box order, are the tokens of the new text: each
\* token is in one box, none is lost or repeated, and the order is kept.
C27_Conservation ==
    \A l \in Processed :
        (l = reflow.line /\ xml0[l] # <<>>) =>
            /\ BoxTokens(xml[l], 1) = reflow.new_tokens
            /\ BoxTokens(xml[l], 1) = Tokens(reflow.new_line)

\* more tokens than boxes, and some boxes hold one token more than others
C27_Witness ==
    /\ reflow.line = 1
    /\ Len(xml0[1]) >= 2
    /\ Len(reflow.new_tokens) > Len(xml0[1])
    /\ Len(reflow.new_tokens) % Len(xml0[1]) # 0
    /\ BoxTokens(xml[1], 1) # BoxTokens(xml0[1], 1)

(***************************************************************************)
(* Knowledge base, the log: the claims                                     *)
(***************************************************************************)

\* sub occurs in s, the case of the letters set aside
ContainsIgnoreCase(sub, s) ==
    \E p \in 1..(Len(s) + 1) :
        /\ p + Len(sub) - 1 <= Len(s)
        /\ \A k \in 1..Len(sub) : s[p + k - 1] \in CaseFold(sub[k])

\* C28: a log entry of the knowledge-base pass stands for a substitution
\* that took place: the text before it contained the candidate, as it is or
\* with other case; a candidate that does not occur in the text, whatever its
\* fuzzy score, adds no entry.
C28_Original ==
    last.op = "kb" =>
        /\ Len(logs) > last.nlogs => ContainsIgnoreCase(last.orig, last.before)
        /\ ~ContainsIgnoreCase(last.orig, last.before) =>
              /\ logs = SubSeq(logs, 1, last.nlogs)
              /\ text = last.before

\* what the code does keep: an entry is added when the candidate occurs or
\* the score is >= 90, and the text changes only where the candidate occurs
LoggedOnHit ==
    last.op = "kb" =>
        /\ Len(logs) > last.nlogs <=> (Contains(last.orig, last.before) \/ FuzzyHit(last.score))
        /\ ~ContainsIgnoreCase(last.orig, last.before) => text = last.before

\* C29: a processed line whose text the substitution returned unchanged
\* has in every box the text the box had.
C29_Original ==
    \A l \in Processed :
        (l = reflow.line /\ xml0[l] # <<>> /\ reflow.new_line = reflow.original_line) =>
            Texts(xml[l]) = Texts(xml0[l])

\* what the code does keep: the boxes of such a line keep their texts when
\* each of them held exactly one token
IdentityOnSingleTokens ==
    \A l \in Processed :
        (/\ l = reflow.line
         /\ reflow.new_line = reflow.original_line
         /\ \A i \in 1..Len(xml0[l]) : Tokens(xml0[l][i].text) = <<xml0[l][i].text>>) =>
            Texts(xml[l]) = Texts(xml0[l])


\* ---------------------------------------------------------------------------
\* C30. Watcher stability gate.  anonymize_docx / anonymize_pdf run at most
\* once per created event, and only when the last iteration of
\* _wait_for_stable_file found the file present, read the same size, not zero,
\* before and after the delay, and opened it.  The wait never makes more than
\* `attempts` iterations, and an event whose wait found no such iteration is
\* dropped: nothing is processed for it and the handler has moved on.
Anonymized(e) ==
    {k \in 1..Len(wlog) : wlog[k] \in {<<"saved", e>>, <<"failed", e>>}}

Stable(p) ==
    /\ p.exists = "True"
    /\ p.size_before > 0
    /\ p.size_after = p.size_before
    /\ p.opened = "ok"

Dropped(e) ==
    \E k \in 1..Len(wlog) : wlog[k] = <<"still being written", e>>

Iterations ==
    attempt + (IF pc \in {"process", "escaped"} THEN 1 ELSE 0)

====
